---- MODULE Spec2Model ----
(***************************************************************************)
(* Verification model of the Scrabble board engine                         *)
(* (src/utils/matrix/game_state.py, class Game) together with the rule     *)
(* tables of src/resources/rule_definitions.py (class Rule).               *)
(*                                                                         *)
(* A tile is a pair <<ch, <<row, col>>>>, exactly the (letter, [row, col]) *)
(* tuples of the source; a placement ("additions") is a sequence of tiles. *)
(* A letter is a one-character string, "" is the empty board cell and "-"  *)
(* the unresolved blank.  A word is a sequence of letters.                 *)
(***************************************************************************)
EXTENDS Integers, Sequences, FiniteSets, TLC

VARIABLES board, moves, blanks, pc, call

vars == <<board, moves, blanks, pc, call>>

-----------------------------------------------------------------------------
(* Generic helpers.                                                        *)

SetMin(S) == CHOOSE x \in S : \A y \in S : x <= y

SetMax(S) == CHOOSE x \in S : \A y \in S : x >= y

Range(s) == {s[i] : i \in DOMAIN s}

RECURSIVE SumSeq(_)
SumSeq(s) == IF s = <<>> THEN 0 ELSE Head(s) + SumSeq(Tail(s))

RECURSIVE FlatMap(_, _)
(* Concatenation of the sequences f[1] \o ... \o f[n].                     *)
FlatMap(f, n) == IF n = 0 THEN <<>> ELSE FlatMap(f, n - 1) \o f[n]

-----------------------------------------------------------------------------
(* Letters: string.ascii_uppercase, str.upper, str.lower, str.isalpha,     *)
(* str.islower restricted to the characters a tile can carry.              *)

ascii_uppercase ==
    <<"A", "B", "C", "D", "E", "F", "G", "H", "I", "J", "K", "L", "M",
      "N", "O", "P", "Q", "R", "S", "T", "U", "V", "W", "X", "Y", "Z">>

ascii_lowercase ==
    <<"a", "b", "c", "d", "e", "f", "g", "h", "i", "j", "k", "l", "m",
      "n", "o", "p", "q", "r", "s", "t", "u", "v", "w", "x", "y", "z">>

UpperSet == Range(ascii_uppercase)

LowerSet == Range(ascii_lowercase)

islower(ch) == ch \in LowerSet

isalpha(ch) == ch \in UpperSet \cup LowerSet

upper(ch) ==
    IF ch \in LowerSet
    THEN ascii_uppercase[CHOOSE i \in DOMAIN ascii_lowercase : ascii_lowercase[i] = ch]
    ELSE ch

lower(ch) ==
    IF ch \in UpperSet
    THEN ascii_lowercase[CHOOSE i \in DOMAIN ascii_uppercase : ascii_uppercase[i] = ch]
    ELSE ch

lower_word(w) == [i \in DOMAIN w |-> lower(w[i])]

-----------------------------------------------------------------------------
(* Rule tables (class Rule).                                               *)

BoardSize == 15

Idx == 0 .. (BoardSize - 1)

Cells == Idx \X Idx

start_pos == <<7, 7>>

letter_points(ch) ==
    CASE ch \in {"-"} -> 0
      [] ch \in {"A", "E", "I", "O", "U", "L", "N", "S", "T", "R"} -> 1
      [] ch \in {"D", "G"} -> 2
      [] ch \in {"B", "C", "M", "P"} -> 3
      [] ch \in {"F", "H", "V", "W", "Y"} -> 4
      [] ch \in {"K"} -> 5
      [] ch \in {"J", "X"} -> 8
      [] ch \in {"Q", "Z"} -> 10
      [] OTHER -> 0

tw_positions ==
    {<<0, 0>>, <<0, 7>>, <<0, 14>>, <<7, 0>>, <<7, 14>>,
     <<14, 0>>, <<14, 7>>, <<14, 14>>}

dw_positions ==
    {<<1, 1>>, <<1, 13>>, <<2, 2>>, <<2, 12>>, <<3, 3>>, <<3, 11>>,
     <<4, 4>>, <<4, 10>>, <<7, 7>>,
     <<10, 4>>, <<10, 10>>, <<11, 3>>, <<11, 11>>,
     <<12, 2>>, <<12, 12>>, <<13, 1>>, <<13, 13>>}

tl_positions ==
    {<<1, 5>>, <<1, 9>>, <<5, 1>>, <<5, 5>>, <<5, 9>>, <<5, 13>>,
     <<9, 1>>, <<9, 5>>, <<9, 9>>, <<9, 13>>, <<13, 5>>, <<13, 9>>}

dl_positions ==
    {<<0, 3>>, <<0, 11>>, <<2, 6>>, <<2, 8>>, <<3, 0>>, <<3, 7>>, <<3, 14>>,
     <<6, 2>>, <<6, 6>>, <<6, 8>>, <<6, 12>>,
     <<7, 3>>, <<7, 11>>,
     <<8, 2>>, <<8, 6>>, <<8, 8>>, <<8, 12>>,
     <<11, 0>>, <<11, 7>>, <<11, 14>>, <<12, 6>>, <<12, 8>>,
     <<14, 3>>, <<14, 11>>}

word_multiplier ==
    [p \in Cells |-> IF p \in dw_positions THEN 2
                     ELSE IF p \in tw_positions THEN 3 ELSE 1]

letter_multiplier ==
    [p \in Cells |-> IF p \in dl_positions THEN 2
                     ELSE IF p \in tl_positions THEN 3 ELSE 1]

(* The lexicon the Rule object was loaded with: lower-case words.          *)
dictionary_lines ==
    <<<<"a", "t">>, <<"t", "a">>, <<"c", "a", "t">>, <<"a", "s">>,
      <<"q", "u", "i", "t", "e">>, <<"c", "a", "t", "s">>>>

scrabble_dictionary == Range(dictionary_lines)

-----------------------------------------------------------------------------
(* Board access.                                                           *)

EmptyBoard == [p \in Cells |-> ""]

Pos(t) == t[2]

Ch(t) == t[1]

Rows(additions) == {Pos(additions[i])[1] : i \in DOMAIN additions}

Cols(additions) == {Pos(additions[i])[2] : i \in DOMAIN additions}

Positions(additions) == {Pos(additions[i]) : i \in DOMAIN additions}

InBounds(p) == 0 <= p[1] /\ p[1] < BoardSize /\ 0 <= p[2] /\ p[2] < BoardSize

(* np.ptp: the spread of a non-empty set of coordinates.                   *)
ptp(S) == SetMax(S) - SetMin(S)

-----------------------------------------------------------------------------
(* Game._verify_word_addition: "ok" when it returns True, otherwise the    *)
(* ValueError it raises.                                                   *)

verify_word_addition(b, additions) ==
    IF additions = <<>> THEN "empty"
    ELSE IF \E i \in DOMAIN additions : ~InBounds(Pos(additions[i])) THEN "out_of_bounds"
    ELSE IF \E i \in DOMAIN additions : b[Pos(additions[i])] # "" THEN "occupied"
    ELSE IF Cardinality(Rows(additions)) > 1 /\ Cardinality(Cols(additions)) > 1
         THEN "not_single_line"
    ELSE IF Cardinality(Rows(additions)) = 1
         THEN IF ptp(Cols(additions)) + 1 # Len(additions) THEN "gap" ELSE "ok"
         ELSE IF ptp(Rows(additions)) + 1 # Len(additions) THEN "gap" ELSE "ok"

(* _touches_existing_word with the diagonal neighbours counted too.        *)
touches_with_diagonals(b, additions) ==
    IF additions = <<>> THEN FALSE
    ELSE LET all_adj == {<<p[1] + dr, p[2] + dc>> :
                            p \in Positions(additions), dr \in {-1, 0, 1}, dc \in {-1, 0, 1}}
             valid_adj == {q \in all_adj : InBounds(q)}
         IN  \E q \in valid_adj : b[q] # ""

(* Game._touches_existing_word: some tile has an occupied 4-neighbour      *)
(* inside the board.                                                       *)
adj == {<<-1, 0>>, <<1, 0>>, <<0, -1>>, <<0, 1>>}

touches_existing_word(b, additions) ==
    IF additions = <<>> THEN FALSE
    ELSE LET all_adj == {<<p[1] + d[1], p[2] + d[2]>> : p \in Positions(additions), d \in adj}
             valid_adj == {q \in all_adj : InBounds(q)}
         IN  \E q \in valid_adj : b[q] # ""

(* Game._check_board_valid.                                                *)
check_board_valid(b, additions) ==
    IF \A p \in Cells : b[p] = ""
    THEN IF \E i \in DOMAIN additions : Pos(additions[i])[1] = start_pos[1]
                                        /\ Pos(additions[i])[2] = start_pos[2]
         THEN "ok" ELSE "start_not_covered"
    ELSE IF ~touches_existing_word(b, additions) THEN "not_connected" ELSE "ok"

-----------------------------------------------------------------------------
(* Game._extract_word_positions: the words (lists of cells) formed on      *)
(* temp_board by additions, the main word first, then one cross word per   *)
(* tile in the order of additions.                                         *)

RECURSIVE write_tiles(_, _, _)
(* b after "board[row, col] = letter" for the first n tiles, in order.     *)
write_tiles(b, additions, n) ==
    IF n = 0 THEN b
    ELSE [write_tiles(b, additions, n - 1) EXCEPT ![Pos(additions[n])] = Ch(additions[n])]

(* temp_board: a copy of the board with the tiles written on it.           *)
overlay(b, additions) == write_tiles(b, additions, Len(additions))

(* The maximal run of TRUE entries of occ (a function on Idx) through k,   *)
(* as <<first, last>>; occ[k] is TRUE.                                     *)
segment_through(occ, k) ==
    <<SetMin({lo \in 0 .. k : \A j \in lo .. k : occ[j]}),
      SetMax({hi \in k .. (BoardSize - 1) : \A j \in k .. hi : occ[j]})>>

(* occupied_segments: the maximal runs of TRUE entries, as <<first, last>>. *)
occupied_segments(occ) ==
    {segment_through(occ, k) : k \in {j \in Idx : occ[j]}}

(* The first occupied segment that overlaps [lo, hi], as a set of at most  *)
(* one segment (the loop breaks at the first overlap).                     *)
first_overlapping(occ, lo, hi) ==
    LET over == {seg \in occupied_segments(occ) : lo <= seg[2] /\ hi >= seg[1]}
    IN  IF over = {} THEN {}
        ELSE {CHOOSE seg \in over : \A other \in over : seg[1] <= other[1]}

row_cells(row, seg) == [k \in 1 .. (seg[2] - seg[1] + 1) |-> <<row, seg[1] + k - 1>>]

col_cells(col, seg) == [k \in 1 .. (seg[2] - seg[1] + 1) |-> <<seg[1] + k - 1, col>>]

extract_horizontal(temp_board, additions) ==
    LET row == SetMin(Rows(additions))
        occupied == [c \in Idx |-> temp_board[<<row, c>>] # ""]
        main == first_overlapping(occupied, SetMin(Cols(additions)), SetMax(Cols(additions)))
        main_words == IF main = {} THEN <<>>
                      ELSE LET seg == CHOOSE x \in main : TRUE
                           IN  IF seg[2] - seg[1] + 1 > 1 THEN <<row_cells(row, seg)>> ELSE <<>>
        cross(i) ==
            LET c == Pos(additions[i])[2]
                seg_col == [r \in Idx |-> temp_board[<<r, c>>] # ""]
            IN  IF ~seg_col[row] THEN <<>>
                ELSE LET segment == segment_through(seg_col, row)
                     IN  IF segment[2] - segment[1] + 1 > 1
                         THEN <<col_cells(c, segment)>> ELSE <<>>
    IN  main_words \o FlatMap([i \in DOMAIN additions |-> cross(i)], Len(additions))

extract_vertical(temp_board, additions) ==
    LET col == SetMin(Cols(additions))
        occupied == [r \in Idx |-> temp_board[<<r, col>>] # ""]
        main == first_overlapping(occupied, SetMin(Rows(additions)), SetMax(Rows(additions)))
        main_words == IF main = {} THEN <<>>
                      ELSE LET seg == CHOOSE x \in main : TRUE
                           IN  IF seg[2] - seg[1] + 1 > 1 THEN <<col_cells(col, seg)>> ELSE <<>>
        cross(i) ==
            LET r == Pos(additions[i])[1]
                seg_row == [c \in Idx |-> temp_board[<<r, c>>] # ""]
            IN  IF ~seg_row[col] THEN <<>>
                ELSE LET segment == segment_through(seg_row, col)
                     IN  IF segment[2] - segment[1] + 1 > 1
                         THEN <<row_cells(r, segment)>> ELSE <<>>
    IN  main_words \o FlatMap([i \in DOMAIN additions |-> cross(i)], Len(additions))

extract_word_positions(temp_board, additions) ==
    IF additions = <<>> THEN <<>>
    ELSE IF Cardinality(Rows(additions)) = 1
         THEN extract_horizontal(temp_board, additions)
         ELSE extract_vertical(temp_board, additions)

(* Game._get_all_affected_words: the set of the words' letter strings.     *)
get_all_affected_words(b, additions) ==
    IF additions = <<>> THEN {}
    ELSE LET temp_board == overlay(b, additions)
             word_positions == extract_word_positions(temp_board, additions)
         IN  {[k \in DOMAIN word_positions[w] |-> temp_board[word_positions[w][k]]] :
                 w \in DOMAIN word_positions}

(* self.board after _get_all_affected_words had written the tiles to      *)
(* self.board itself.                                                      *)
board_after_words_aliased(b, additions) == overlay(b, additions)

(* self.board after _get_all_affected_words or score_calculator: the tiles *)
(* are written to temp_board, which is self.board.copy().                  *)
board_after_words(b, additions) == b

RECURSIVE board_after_calls(_, _)
(* self.board after the calls that overlay each placement of a list.       *)
board_after_calls(b, placements) ==
    IF placements = <<>> THEN b
    ELSE board_after_calls(board_after_words(b, Head(placements)), Tail(placements))

-----------------------------------------------------------------------------
(* Game._check_word_valid.                                                 *)

wildcard_indices(additions) == {i \in DOMAIN additions : Ch(additions[i]) = "-"}

(* additions with the wildcard tiles relettered by combo, a function from  *)
(* the wildcard indices to letters.                                        *)
with_letters(additions, combo) ==
    [i \in DOMAIN additions |->
        IF i \in DOMAIN combo THEN <<combo[i], Pos(additions[i])>> ELSE additions[i]]

all_words_valid(b, additions) ==
    \A word \in get_all_affected_words(b, additions) :
        lower_word(word) \in scrabble_dictionary

(* valid_combinations: the members of product(A..Z, repeat = k) under      *)
(* which every affected word is in the dictionary.                         *)
valid_combinations(b, additions) ==
    {combo \in [wildcard_indices(additions) -> UpperSet] :
        all_words_valid(b, with_letters(additions, combo))}

(* _check_word_valid with the chosen letters written as product() gave    *)
(* them, in upper case.                                                    *)
check_word_valid_upper(b, additions) ==
    IF \E i \in DOMAIN additions : b[Pos(additions[i])] # ""
    THEN {[err |-> "occupied", additions |-> additions]}
    ELSE IF wildcard_indices(additions) = {}
    THEN IF all_words_valid(b, additions)
         THEN {[err |-> "ok", additions |-> additions]}
         ELSE {[err |-> "invalid_words", additions |-> additions]}
    ELSE IF valid_combinations(b, additions) = {}
    THEN {[err |-> "no_valid_combination", additions |-> additions]}
    ELSE {[err |-> "ok", additions |-> with_letters(additions, chosen_combo)] :
             chosen_combo \in valid_combinations(b, additions)}

(* Every outcome of one call: the error raised ("ok" when it returns True) *)
(* and additions as the call leaves the list it was given; random.choice   *)
(* may return any valid combination.                                       *)
check_word_valid(b, additions) ==
    IF \E i \in DOMAIN additions : b[Pos(additions[i])] # ""
    THEN {[err |-> "occupied", additions |-> additions]}
    ELSE IF wildcard_indices(additions) = {}
    THEN IF all_words_valid(b, additions)
         THEN {[err |-> "ok", additions |-> additions]}
         ELSE {[err |-> "invalid_words", additions |-> additions]}
    ELSE IF valid_combinations(b, additions) = {}
    THEN {[err |-> "no_valid_combination", additions |-> additions]}
    ELSE {[err |-> "ok",
           additions |-> with_letters(additions,
                            [i \in wildcard_indices(additions) |-> lower(chosen_combo[i])])] :
             chosen_combo \in valid_combinations(b, additions)}

-----------------------------------------------------------------------------
(* Game.score_calculator.                                                  *)

BingoTiles == 7

BingoBonus == 50

(* blank_positions with the lower-case test lost: no tile is a blank.     *)
blank_positions_none(additions) ==
    {Pos(additions[i]) : i \in {j \in DOMAIN additions : FALSE}}

(* blank_positions: the cells of the tiles given in lower case.            *)
blank_positions(additions) ==
    {Pos(additions[i]) : i \in {j \in DOMAIN additions :
                                   isalpha(Ch(additions[j])) /\ islower(Ch(additions[j]))}}

norm_additions(additions) ==
    [i \in DOMAIN additions |-> <<upper(Ch(additions[i])), Pos(additions[i])>>]

RECURSIVE score_letters(_, _, _, _, _, _)
(* letter_sum after the loop of score_word has run over pos_list[1 .. n].  *)
score_letters(temp_board, blank, new_positions, lm, pos_list, n) ==
    IF n = 0 THEN 0
    ELSE LET p == pos_list[n]
             base == IF p \in blank THEN 0 ELSE letter_points(upper(temp_board[p]))
         IN  score_letters(temp_board, blank, new_positions, lm, pos_list, n - 1)
             + (IF p \in new_positions THEN base * lm[p] ELSE base)

RECURSIVE score_word_mult_added(_, _, _, _)
(* word_mult with the premiums of the new cells added instead of           *)
(* multiplied.                                                             *)
score_word_mult_added(new_positions, wm, pos_list, n) ==
    IF n = 0 THEN 1
    ELSE LET p == pos_list[n]
         IN  score_word_mult_added(new_positions, wm, pos_list, n - 1)
             + (IF p \in new_positions THEN (IF wm[p] > 1 THEN wm[p] - 1 ELSE 0) ELSE 0)

RECURSIVE score_word_mult_all_cells(_, _, _, _)
(* word_mult with the premium of every cell of the word, new or not.       *)
score_word_mult_all_cells(new_positions, wm, pos_list, n) ==
    IF n = 0 THEN 1
    ELSE LET p == pos_list[n]
         IN  score_word_mult_all_cells(new_positions, wm, pos_list, n - 1)
             * (IF wm[p] > 1 THEN wm[p] ELSE 1)

RECURSIVE score_word_mult(_, _, _, _)
(* word_mult after the loop of score_word has run over pos_list[1 .. n].   *)
score_word_mult(new_positions, wm, pos_list, n) ==
    IF n = 0 THEN 1
    ELSE LET p == pos_list[n]
         IN  score_word_mult(new_positions, wm, pos_list, n - 1)
             * (IF p \in new_positions THEN (IF wm[p] > 1 THEN wm[p] ELSE 1) ELSE 1)

(* score_word: letter_sum * word_mult of one word.                         *)
score_word(temp_board, blank, new_positions, lm, wm, pos_list) ==
    score_letters(temp_board, blank, new_positions, lm, pos_list, Len(pos_list))
    * score_word_mult(new_positions, wm, pos_list, Len(pos_list))

(* total: the sum of score_word over the words of the move, for the        *)
(* multiplier grids lm and wm.                                             *)
words_total(b, additions, lm, wm) ==
    LET norm == norm_additions(additions)
        temp_board == overlay(b, norm)
        word_positions == extract_word_positions(temp_board, norm)
    IN  SumSeq([w \in DOMAIN word_positions |->
                  score_word(temp_board, blank_positions(additions),
                             Positions(norm), lm, wm, word_positions[w])])

(* The body of score_calculator for the multiplier grids lm and wm.        *)
score_total(b, additions, bingo, lm, wm) ==
    IF additions = <<>> THEN 0
    ELSE IF bingo \/ Len(norm_additions(additions)) = BingoTiles
         THEN words_total(b, additions, lm, wm) + BingoBonus
         ELSE words_total(b, additions, lm, wm)

score_calculator(b, additions, bingo) ==
    score_total(b, additions, bingo, letter_multiplier, word_multiplier)

-----------------------------------------------------------------------------
(* Game._update: the tiles written in upper case, in order.                *)
update(b, additions) == overlay(b, norm_additions(additions))

(* new_move with the board written before the dictionary is consulted.    *)
new_move_commit_first(b, additions) ==
    LET upper_additions == norm_additions(additions)
        failed(stage, err, after) ==
            [stage |-> stage, err |-> err, board |-> after, score |-> 0,
             additions |-> upper_additions]
    IN  IF verify_word_addition(b, upper_additions) # "ok"
        THEN {failed("geometry", verify_word_addition(b, upper_additions), b)}
        ELSE IF check_board_valid(b, upper_additions) # "ok"
        THEN {failed("board_rule", check_board_valid(b, upper_additions), b)}
        ELSE {IF r.err # "ok"
              THEN failed("dictionary", r.err, update(b, upper_additions))
              ELSE [stage |-> "commit", err |-> "ok",
                    board |-> update(b, r.additions),
                    score |-> score_calculator(b, r.additions, FALSE),
                    additions |-> r.additions] :
                r \in check_word_valid(b, upper_additions)}

(* Game.new_move: every outcome of one call.  err is "ok" or the error of  *)
(* the stage that raised, board the board the call leaves, additions the   *)
(* local list after dictionary validation, score the value returned.       *)
new_move(b, additions) ==
    LET upper_additions == norm_additions(additions)
        failed(stage, err) ==
            [stage |-> stage, err |-> err, board |-> b, score |-> 0,
             additions |-> upper_additions]
    IN  IF verify_word_addition(b, upper_additions) # "ok"
        THEN {failed("geometry", verify_word_addition(b, upper_additions))}
        ELSE IF check_board_valid(b, upper_additions) # "ok"
        THEN {failed("board_rule", check_board_valid(b, upper_additions))}
        ELSE {IF r.err # "ok"
              THEN failed("dictionary", r.err)
              ELSE [stage |-> "commit", err |-> "ok",
                    board |-> update(b, r.additions),
                    score |-> score_calculator(b, r.additions, FALSE),
                    additions |-> r.additions] :
                r \in check_word_valid(b, upper_additions)}

-----------------------------------------------------------------------------
(* Strings are sequences of one-character strings; collections.Counter is  *)
(* the count of a character in a string.                                   *)

upper_str(s) == [i \in DOMAIN s |-> upper(s[i])]

Count(s, ch) == Cardinality({i \in DOMAIN s : s[i] = ch})

(* list.remove(ch): the first occurrence of ch leaves the list.            *)
remove_first(s, ch) ==
    IF \E i \in DOMAIN s : s[i] = ch
    THEN LET k == SetMin({i \in DOMAIN s : s[i] = ch})
         IN  SubSeq(s, 1, k - 1) \o SubSeq(s, k + 1, Len(s))
    ELSE s

(* The distinct characters of s in the order of their first occurrence     *)
(* (the keys of Counter(s)).                                               *)
counter_keys(s) ==
    LET firsts == {i \in DOMAIN s : \A j \in 1 .. (i - 1) : s[j] # s[i]}
        F[n \in 0 .. Len(s)] ==
            IF n = 0 THEN <<>>
            ELSE IF n \in firsts THEN F[n - 1] \o <<s[n]>> ELSE F[n - 1]
    IN  F[Len(s)]

(* The letters the pattern needs and the deck does not have.               *)
missing_letters(pattern_letters, deck) ==
    LET keys == counter_keys(pattern_letters)
    IN  SumSeq([k \in DOMAIN keys |->
                  IF Count(deck, keys[k]) < Count(pattern_letters, keys[k])
                  THEN Count(pattern_letters, keys[k]) - Count(deck, keys[k])
                  ELSE 0])

-----------------------------------------------------------------------------
(* SimplePatternGenerator.                                                 *)

spg_verify_pattern(pattern, deck) ==
    LET p == upper_str(pattern)
        d == upper_str(deck)
    IN  IF pattern = <<>> THEN "empty_pattern"
        ELSE IF \E i \in DOMAIN p : ~(isalpha(p[i]) \/ p[i] = "_") THEN "bad_pattern"
        ELSE IF \E i \in DOMAIN d : ~(isalpha(d[i]) \/ d[i] = "-") THEN "bad_deck"
        ELSE IF missing_letters(SelectSeq(p, isalpha), d) > Count(d, "-")
             THEN "insufficient_deck"
        ELSE "ok"

RECURSIVE remove_pattern_letters(_, _, _)
remove_pattern_letters(deck_list, pattern, n) ==
    IF n = 0 THEN deck_list
    ELSE LET rest == remove_pattern_letters(deck_list, pattern, n - 1)
             char == pattern[n]
         IN  IF ~isalpha(char) THEN rest
             ELSE IF Count(rest, char) > 0 THEN remove_first(rest, char)
             ELSE IF Count(rest, "-") > 0 THEN remove_first(rest, "-")
             ELSE rest

calculate_implicit_deck(pattern, deck) ==
    remove_pattern_letters(upper_str(deck), upper_str(pattern), Len(pattern))

RECURSIVE enough_letters(_, _, _, _, _)
(* The loop over needed.items(): blanks make up for the letters the        *)
(* implicit deck lacks, while there are blanks.                            *)
enough_letters(keys, k, needed, implicit_deck, blanks_left) ==
    IF k > Len(keys) THEN TRUE
    ELSE LET count == Count(needed, keys[k])
             have == Count(implicit_deck, keys[k])
         IN  IF have < count
             THEN IF have + blanks_left < count THEN FALSE
                  ELSE enough_letters(keys, k + 1, needed, implicit_deck,
                                      blanks_left - (count - have))
             ELSE enough_letters(keys, k + 1, needed, implicit_deck, blanks_left)

(* enough_letters without the blanks of the implicit deck.                 *)
can_make_word_no_blanks(word, pattern, implicit_deck) ==
    /\ \A i \in DOMAIN pattern : isalpha(pattern[i]) => word[i] = pattern[i]
    /\ LET wild == {i \in DOMAIN pattern : pattern[i] = "_"}
           needed == SelectSeq([i \in DOMAIN word |-> IF i \in wild THEN word[i] ELSE ""],
                               LAMBDA ch : ch # "")
       IN  enough_letters(counter_keys(needed), 1, needed, implicit_deck, 0)

can_make_word(word, pattern, implicit_deck) ==
    /\ \A i \in DOMAIN pattern : isalpha(pattern[i]) => word[i] = pattern[i]
    /\ LET wild == {i \in DOMAIN pattern : pattern[i] = "_"}
           needed == SelectSeq([i \in DOMAIN word |-> IF i \in wild THEN word[i] ELSE ""],
                               LAMBDA ch : ch # "")
       IN  enough_letters(counter_keys(needed), 1, needed, implicit_deck,
                          Count(implicit_deck, "-"))

(* SimplePatternGenerator.generate: the error raised, or "ok" and the list *)
(* of matching words.                                                      *)
spg_generate(pattern, deck, word_list) ==
    IF spg_verify_pattern(pattern, deck) # "ok"
    THEN [err |-> spg_verify_pattern(pattern, deck), words |-> <<>>]
    ELSE LET p == upper_str(pattern)
             implicit_deck == calculate_implicit_deck(p, upper_str(deck))
             candidates == SelectSeq([i \in DOMAIN word_list |-> upper_str(word_list[i])],
                                     LAMBDA w : Len(w) = Len(p))
         IN  [err |-> "ok",
              words |-> SelectSeq(candidates,
                                  LAMBDA w : can_make_word(w, p, implicit_deck))]

-----------------------------------------------------------------------------
(* DynamicPatternGenerator: patterns with ranges "(n,m)".                  *)

Digits == <<"0", "1", "2", "3", "4", "5", "6", "7", "8", "9">>

isdigit(ch) == ch \in Range(Digits)

digit_value(ch) == (CHOOSE i \in DOMAIN Digits : Digits[i] = ch) - 1

RECURSIVE int(_)
(* int(s) of a string of digits.                                           *)
int(s) ==
    IF s = <<>> THEN 0
    ELSE int(SubSeq(s, 1, Len(s) - 1)) * 10 + digit_value(s[Len(s)])

RECURSIVE str(_)
(* str(n) of a natural number.                                             *)
str(n) == IF n < 10 THEN <<Digits[n + 1]>> ELSE str(n \div 10) \o <<Digits[(n % 10) + 1]>>

(* The index after the digits that start at i.                             *)
digits_end(s, i) ==
    SetMin({j \in i .. (Len(s) + 1) : j = Len(s) + 1 \/ ~isdigit(s[j])})

(* _RANGE_PATTERN.match(pattern, i): \((\d+),(\d+)\) at index i.           *)
range_match(s, i) ==
    IF i > Len(s) \/ s[i] # "(" THEN [ok |-> FALSE, n |-> 0, m |-> 0, end |-> i]
    ELSE LET b == digits_end(s, i + 1)
             d == digits_end(s, b + 1)
         IN  IF /\ b > i + 1 /\ b <= Len(s) /\ s[b] = ","
                /\ d > b + 1 /\ d <= Len(s) /\ s[d] = ")"
             THEN [ok |-> TRUE, n |-> int(SubSeq(s, i + 1, b - 1)),
                   m |-> int(SubSeq(s, b + 1, d - 1)), end |-> d + 1]
             ELSE [ok |-> FALSE, n |-> 0, m |-> 0, end |-> i]

RECURSIVE dpg_scan(_, _, _)
(* The single pass of __verify_pattern over the pattern: the error it      *)
(* raises, or "ok" and the letters it counted.                             *)
dpg_scan(p, i, letters) ==
    IF i > Len(p) THEN [err |-> "ok", letters |-> letters]
    ELSE IF p[i] = "("
         THEN LET match == range_match(p, i)
              IN  IF ~match.ok THEN [err |-> "bad_range_format", letters |-> letters]
                  ELSE IF match.n < 0 \/ match.n >= match.m
                       THEN [err |-> "bad_range", letters |-> letters]
                  ELSE dpg_scan(p, match.end, letters)
    ELSE IF isalpha(p[i]) THEN dpg_scan(p, i + 1, letters \o <<upper(p[i])>>)
    ELSE IF p[i] # "_" THEN [err |-> "bad_character", letters |-> letters]
    ELSE dpg_scan(p, i + 1, letters)

dpg_verify_pattern(pattern, deck) ==
    LET scan == dpg_scan(upper_str(pattern), 1, <<>>)
        d == upper_str(deck)
    IN  IF scan.err # "ok" THEN scan.err
        ELSE IF \E i \in DOMAIN d : ~(isalpha(d[i]) \/ d[i] = "-") THEN "bad_deck"
        ELSE IF missing_letters(scan.letters, d) > Count(d, "-") THEN "insufficient_deck"
        ELSE "ok"

RECURSIVE tokenize(_, _)
(* The tokens of __list_all_patterns: a range (n,m) or one character.      *)
tokenize(pattern, idx) ==
    IF idx > Len(pattern) THEN <<>>
    ELSE LET match == range_match(pattern, idx)
         IN  IF match.ok
             THEN <<[range |-> TRUE, n |-> match.n, m |-> match.m, ch |-> ""]>>
                  \o tokenize(pattern, match.end)
             ELSE <<[range |-> FALSE, n |-> 0, m |-> 0, ch |-> pattern[idx]]>>
                  \o tokenize(pattern, idx + 1)

underscores(k) == [i \in 1 .. k |-> "_"]

RECURSIVE expand(_)
expand(parts) ==
    IF parts = <<>> THEN <<<<>>>>
    ELSE LET first == Head(parts)
             expanded_rest == expand(Tail(parts))
         IN  IF first.range
             THEN FlatMap([j \in 1 .. (first.m - first.n + 1) |->
                             [t \in DOMAIN expanded_rest |->
                                 underscores(first.n + j - 1) \o expanded_rest[t]]],
                          IF first.m >= first.n THEN first.m - first.n + 1 ELSE 0)
             ELSE [t \in DOMAIN expanded_rest |-> <<first.ch>> \o expanded_rest[t]]

list_all_patterns(pattern) == expand(tokenize(pattern, 1))

RECURSIVE dpg_collect(_, _, _, _)
(* The loop of generate over all_patterns: an error of the simple          *)
(* generator ends it, its matches are added to the set valid_words.        *)
dpg_collect(all_patterns, k, deck, word_list) ==
    IF k > Len(all_patterns) THEN [err |-> "ok", words |-> {}]
    ELSE LET matches == spg_generate(all_patterns[k], deck, word_list)
         IN  IF matches.err # "ok" THEN [err |-> matches.err, words |-> {}]
             ELSE LET rest == dpg_collect(all_patterns, k + 1, deck, word_list)
                  IN  [err |-> rest.err,
                       words |-> IF rest.err = "ok"
                                 THEN Range(matches.words) \cup rest.words ELSE {}]

(* DynamicPatternGenerator.generate: the error raised, or "ok" and the set *)
(* valid_words the returned list is made of.                               *)
dpg_generate(pattern, deck, word_list) ==
    IF dpg_verify_pattern(pattern, deck) # "ok"
    THEN [err |-> dpg_verify_pattern(pattern, deck), words |-> {}]
    ELSE dpg_collect(list_all_patterns(pattern), 1, deck, word_list)

-----------------------------------------------------------------------------
(* OptimiserLength: anchors and the scan for blocks and gaps.              *)

RECURSIVE SortedCells(_)
(* The cells of S in row-major order, as np.argwhere lists them.           *)
SortedCells(S) ==
    IF S = {} THEN <<>>
    ELSE LET first == CHOOSE p \in S :
                         \A q \in S : p[1] * BoardSize + p[2] <= q[1] * BoardSize + q[2]
         IN  <<first>> \o SortedCells(S \ {first})

has_neighbor(b, p) ==
    \/ p[1] > 0 /\ b[<<p[1] - 1, p[2]>>] # ""
    \/ p[1] < BoardSize - 1 /\ b[<<p[1] + 1, p[2]>>] # ""
    \/ p[2] > 0 /\ b[<<p[1], p[2] - 1>>] # ""
    \/ p[2] < BoardSize - 1 /\ b[<<p[1], p[2] + 1>>] # ""

find_anchor_positions(b) ==
    SortedCells({p \in Cells : b[p] = "" /\ has_neighbor(b, p)})

board_is_empty(b) == \A p \in Cells : b[p] = ""

(* get_cell(j): the cell of index j on the line of the anchor.             *)
get_cell(b, anchor, axis, j) ==
    IF axis = "H" THEN b[<<anchor[1], j>>] ELSE b[<<j, anchor[2]>>]

in_line(j) == 0 <= j /\ j < BoardSize

RECURSIVE skip_cells(_, _, _, _, _, _)
(* The index where the run of empty (or of occupied) cells from j ends.    *)
skip_cells(b, anchor, axis, j, step_, empty) ==
    IF in_line(j) /\ ((get_cell(b, anchor, axis, j) = "") = empty)
    THEN skip_cells(b, anchor, axis, j + step_, step_, empty)
    ELSE j

(* The letters of the block from j up to (not including) j_end, in board   *)
(* order, upper case.                                                      *)
block_letters(b, anchor, axis, j, j_end, step_) ==
    LET lo == IF step_ = 1 THEN j ELSE j_end + 1
        hi == IF step_ = 1 THEN j_end - 1 ELSE j
    IN  [i \in 1 .. (hi - lo + 1) |-> upper(get_cell(b, anchor, axis, lo + i - 1))]

Min(x, y) == IF x <= y THEN x ELSE y

RECURSIVE scan_more(_, _, _, _, _, _, _, _, _)
(* The loop "continue scanning for more blocks".                           *)
scan_more(b, anchor, axis, step_, rack_len, j, cumulative_distance, blocks, gaps) ==
    IF ~in_line(j) THEN [blocks |-> blocks, gaps |-> gaps, tail_max |-> 0]
    ELSE LET j_gap == skip_cells(b, anchor, axis, j, step_, TRUE)
             k == (j_gap - j) * step_
         IN  IF ~in_line(j_gap)
             THEN LET remaining == rack_len - cumulative_distance
                  IN  [blocks |-> blocks, gaps |-> gaps,
                       tail_max |-> IF remaining > 0 THEN Min(k, remaining) ELSE 0]
             ELSE IF cumulative_distance + k > rack_len
             THEN LET remaining == rack_len - cumulative_distance
                  IN  [blocks |-> blocks, gaps |-> gaps,
                       tail_max |-> IF remaining > 0 THEN Min(k, remaining) ELSE 0]
             ELSE LET j_blk == skip_cells(b, anchor, axis, j_gap, step_, FALSE)
                  IN  scan_more(b, anchor, axis, step_, rack_len, j_blk,
                                cumulative_distance + k,
                                Append(blocks, block_letters(b, anchor, axis, j_gap,
                                                             j_blk, step_)),
                                Append(gaps, k))

scan_side_for_blocks_first_taken(b, anchor, axis, direction, rack_len) ==
    LET step_ == IF direction = "left" THEN -1 ELSE 1
        start_idx == (IF axis = "H" THEN anchor[2] ELSE anchor[1]) + step_
        j_gap == skip_cells(b, anchor, axis, start_idx, step_, TRUE)
        k == (j_gap - start_idx) * step_
    IN  IF ~in_line(j_gap)
        THEN [blocks |-> <<>>, gaps |-> <<>>, tail_max |-> Min(k, rack_len - 1)]
        ELSE LET j_blk == skip_cells(b, anchor, axis, j_gap, step_, FALSE)
             IN  scan_more(b, anchor, axis, step_, rack_len, j_blk, 1 + k,
                           <<block_letters(b, anchor, axis, j_gap, j_blk, step_)>>,
                           <<k>>)

scan_side_for_blocks(b, anchor, axis, direction, rack_len) ==
    LET step_ == IF direction = "left" THEN -1 ELSE 1
        start_idx == (IF axis = "H" THEN anchor[2] ELSE anchor[1]) + step_
        j_gap == skip_cells(b, anchor, axis, start_idx, step_, TRUE)
        k == (j_gap - start_idx) * step_
    IN  IF ~in_line(j_gap)
        THEN [blocks |-> <<>>, gaps |-> <<>>, tail_max |-> Min(k, rack_len - 1)]
        ELSE IF 1 + k > rack_len
        THEN [blocks |-> <<>>, gaps |-> <<>>, tail_max |-> Min(k, rack_len - 1)]
        ELSE LET j_blk == skip_cells(b, anchor, axis, j_gap, step_, FALSE)
             IN  scan_more(b, anchor, axis, step_, rack_len, j_blk, 1 + k,
                           <<block_letters(b, anchor, axis, j_gap, j_blk, step_)>>,
                           <<k>>)

-----------------------------------------------------------------------------
(* OptimiserLength: the patterns of an anchor.                             *)

Reverse(s) == [i \in DOMAIN s |-> s[Len(s) + 1 - i]]

Take(s, n) == SubSeq(s, 1, n)

(* f'({n},{m})'.                                                           *)
range_str(n, m) == <<"(">> \o str(n) \o <<",">> \o str(m) \o <<")">>

starts_with(t, ch) == Len(t) > 0 /\ t[1] = ch

RECURSIVE pattern_tokens(_, _)
(* The first loop of _simplify_pattern: ranges, runs of underscores and    *)
(* blocks of fixed letters, each a string.                                 *)
pattern_tokens(pattern, i) ==
    IF i > Len(pattern) THEN <<>>
    ELSE IF pattern[i] = "("
    THEN LET j == SetMin({x \in i .. Len(pattern) : pattern[x] = ")"})
         IN  <<SubSeq(pattern, i, j)>> \o pattern_tokens(pattern, j + 1)
    ELSE IF pattern[i] = "_"
    THEN LET j == SetMin({x \in i .. (Len(pattern) + 1) :
                             x = Len(pattern) + 1 \/ pattern[x] # "_"})
         IN  <<SubSeq(pattern, i, j - 1)>> \o pattern_tokens(pattern, j)
    ELSE LET j == SetMin({x \in i .. (Len(pattern) + 1) :
                             x = Len(pattern) + 1 \/ pattern[x] \in {"(", "_"}})
         IN  <<SubSeq(pattern, i, j - 1)>> \o pattern_tokens(pattern, j)

combinable(t) == starts_with(t, "(") \/ starts_with(t, "_")

token_min(t) == IF starts_with(t, "(") THEN range_match(t, 1).n ELSE Len(t)

token_max(t) == IF starts_with(t, "(") THEN range_match(t, 1).m ELSE Len(t)

RECURSIVE combine_tokens(_, _)
(* The second loop of _simplify_pattern: adjacent ranges and underscores   *)
(* become one range, or underscores when the range is exact.               *)
combine_tokens(tokens, i) ==
    IF i > Len(tokens) THEN <<>>
    ELSE IF combinable(tokens[i])
    THEN LET j == SetMin({x \in (i + 1) .. (Len(tokens) + 1) :
                             x = Len(tokens) + 1 \/ ~combinable(tokens[x])})
             min_sum == SumSeq([x \in 1 .. (j - i) |-> token_min(tokens[i + x - 1])])
             max_sum == SumSeq([x \in 1 .. (j - i) |-> token_max(tokens[i + x - 1])])
         IN  IF j - i > 1
             THEN (IF min_sum = max_sum THEN underscores(min_sum)
                   ELSE range_str(min_sum, max_sum))
                  \o combine_tokens(tokens, j)
             ELSE tokens[i] \o combine_tokens(tokens, i + 1)
    ELSE tokens[i] \o combine_tokens(tokens, i + 1)

simplify_pattern(pattern) == combine_tokens(pattern_tokens(pattern, 1), 1)

build_pattern_from_selection(left_blocks, left_gaps, left_tail, right_blocks, right_gaps, right_tail, rack_len) ==
    LET cost == 1 + SumSeq(left_gaps) + SumSeq(right_gaps)
        remaining == rack_len - cost
        left_tail_adj == IF remaining > 0 THEN Min(left_tail, remaining) ELSE 0
        right_tail_adj == IF remaining > 0 THEN Min(right_tail, remaining) ELSE 0
        n_left == Min(Len(left_blocks), Len(left_gaps))
        n_right == Min(Len(right_blocks), Len(right_gaps))
        rev_blocks == Reverse(left_blocks)
        rev_gaps == Reverse(left_gaps)
        left_pattern ==
            (IF left_tail_adj > 0 THEN range_str(0, left_tail_adj) ELSE <<>>)
            \o FlatMap([k \in 1 .. n_left |-> rev_blocks[k] \o underscores(rev_gaps[k])],
                       n_left)
        right_pattern ==
            FlatMap([k \in 1 .. n_right |-> underscores(right_gaps[k]) \o right_blocks[k]],
                    n_right)
            \o (IF right_tail_adj > 0 THEN range_str(0, right_tail_adj) ELSE <<>>)
    IN  [pattern |-> simplify_pattern(left_pattern \o <<"_">> \o right_pattern),
         fixed |-> FlatMap(left_blocks, Len(left_blocks))
                   \o FlatMap(right_blocks, Len(right_blocks)),
         meta |-> [left_blocks |-> left_blocks, left_gaps |-> left_gaps,
                   left_tail |-> left_tail_adj,
                   right_blocks |-> right_blocks, right_gaps |-> right_gaps,
                   right_tail |-> right_tail_adj]]

pattern_selections_every_pair(left, right, rack_len) ==
    LET L == Len(left.blocks)
        R == Len(right.blocks)
        pairs == [k \in 1 .. ((L + 1) * (R + 1)) |->
                     <<(k - 1) \div (R + 1), (k - 1) % (R + 1)>>]
    IN  [k \in DOMAIN pairs |->
            build_pattern_from_selection(
                Take(left.blocks, pairs[k][1]), Take(left.gaps, pairs[k][1]), left.tail_max,
                Take(right.blocks, pairs[k][2]), Take(right.gaps, pairs[k][2]),
                right.tail_max, rack_len)]

(* The selections of _build_all_dynamic_patterns in the order of its two   *)
(* loops, the unreachable ones left out.                                   *)
pattern_selections(left, right, rack_len) ==
    LET L == Len(left.blocks)
        R == Len(right.blocks)
        pairs == [k \in 1 .. ((L + 1) * (R + 1)) |->
                     <<(k - 1) \div (R + 1), (k - 1) % (R + 1)>>]
    IN  FlatMap([k \in DOMAIN pairs |->
                   IF 1 + SumSeq(Take(left.gaps, pairs[k][1]))
                        + SumSeq(Take(right.gaps, pairs[k][2])) > rack_len
                   THEN <<>>
                   ELSE <<build_pattern_from_selection(
                              Take(left.blocks, pairs[k][1]), Take(left.gaps, pairs[k][1]),
                              left.tail_max,
                              Take(right.blocks, pairs[k][2]), Take(right.gaps, pairs[k][2]),
                              right.tail_max, rack_len)>>],
                Len(pairs))

(* unique_patterns: the first selection of each pattern string.            *)
first_of_each_pattern(patterns) ==
    FlatMap([k \in DOMAIN patterns |->
               IF \E x \in 1 .. (k - 1) : patterns[x].pattern = patterns[k].pattern
               THEN <<>> ELSE <<patterns[k]>>],
            Len(patterns))

build_all_dynamic_patterns(b, deck, anchor, axis) ==
    first_of_each_pattern(
        pattern_selections(scan_side_for_blocks(b, anchor, axis, "left", Len(deck)),
                           scan_side_for_blocks(b, anchor, axis, "right", Len(deck)),
                           Len(deck)))

-----------------------------------------------------------------------------
(* OptimiserLength: from a word to a placement.                            *)

block_lengths(blocks) == SumSeq([k \in DOMAIN blocks |-> Len(blocks[k])])

(* The first index in lo .. hi that leaves the word a right part of        *)
(* right_min .. right_max letters, -1 (None) when there is none.           *)
first_fit(word_len, lo, hi, right_min, right_max) ==
    IF \E anchor_idx \in lo .. hi : /\ right_min <= word_len - anchor_idx - 1
                                    /\ word_len - anchor_idx - 1 <= right_max
    THEN SetMin({anchor_idx \in lo .. hi : /\ right_min <= word_len - anchor_idx - 1
                                           /\ word_len - anchor_idx - 1 <= right_max})
    ELSE -1

(* _calculate_anchor_index_in_word.                                        *)
calculate_anchor_index_in_word(word, meta) ==
    first_fit(Len(word),
              block_lengths(meta.left_blocks) + SumSeq(meta.left_gaps),
              block_lengths(meta.left_blocks) + SumSeq(meta.left_gaps) + meta.left_tail,
              block_lengths(meta.right_blocks) + SumSeq(meta.right_gaps),
              block_lengths(meta.right_blocks) + SumSeq(meta.right_gaps) + meta.right_tail)

(* The cell of letter i of a word that starts anchor_idx before the anchor.*)
word_cell(axis, anchor, anchor_idx, i) ==
    IF axis = "H" THEN <<anchor[1], anchor[2] - anchor_idx + i - 1>>
    ELSE <<anchor[1] - anchor_idx + i - 1, anchor[2]>>

assign_rack_unpaid(additions, i, counts, blanks_left) == additions

RECURSIVE assign_rack(_, _, _, _)
(* The rack check of the materializer: a letter of the rack, else a blank  *)
(* written in lower case, else the word is not feasible (<<>>).            *)
assign_rack(additions, i, counts, blanks_left) ==
    IF i > Len(additions) THEN <<>>
    ELSE IF Count(counts, Ch(additions[i])) = 0 /\ blanks_left = 0 THEN <<>>
    ELSE LET from_rack == Count(counts, Ch(additions[i])) > 0
             tile == IF from_rack THEN additions[i]
                     ELSE <<lower(Ch(additions[i])), Pos(additions[i])>>
             finish(rest) == IF i < Len(additions) /\ rest = <<>> THEN <<>>
                             ELSE <<tile>> \o rest
         IN  finish(assign_rack(additions, i + 1,
                                IF from_rack THEN remove_first(counts, Ch(additions[i]))
                                ELSE counts,
                                IF from_rack THEN blanks_left ELSE blanks_left - 1))

place_word_over_letters(b, axis, anchor, w, anchor_idx, rack) ==
    IF anchor_idx = -1 THEN <<>>
    ELSE IF \E i \in DOMAIN w : word_cell(axis, anchor, anchor_idx, i) \notin Cells
    THEN <<>>
    ELSE assign_rack(FlatMap([i \in DOMAIN w |->
                                 IF b[word_cell(axis, anchor, anchor_idx, i)] = ""
                                 THEN <<<<w[i], word_cell(axis, anchor, anchor_idx, i)>>>>
                                 ELSE <<>>],
                             Len(w)),
                     1, rack, Count(rack, "-"))

(* The letters of w laid from the cell anchor_idx before the anchor: the   *)
(* tiles for the empty cells, <<>> when the word leaves the board, meets a *)
(* different letter, needs no tile or needs more than the rack has.        *)
place_word(b, axis, anchor, w, anchor_idx, rack) ==
    IF anchor_idx = -1 THEN <<>>
    ELSE IF \E i \in DOMAIN w :
               \/ word_cell(axis, anchor, anchor_idx, i) \notin Cells
               \/ /\ b[word_cell(axis, anchor, anchor_idx, i)] # ""
                  /\ upper(b[word_cell(axis, anchor, anchor_idx, i)]) # w[i]
    THEN <<>>
    ELSE assign_rack(FlatMap([i \in DOMAIN w |->
                                 IF b[word_cell(axis, anchor, anchor_idx, i)] = ""
                                 THEN <<<<w[i], word_cell(axis, anchor, anchor_idx, i)>>>>
                                 ELSE <<>>],
                             Len(w)),
                     1, rack, Count(rack, "-"))

(* The placement of one word, <<>> when the word is skipped.               *)
materialize_word(b, axis, anchor, word, meta, rack) ==
    place_word(b, axis, anchor, upper_str(word),
               calculate_anchor_index_in_word(upper_str(word), meta), rack)

(* results without the skipped words and the placements seen before.       *)
each_once(placed) ==
    FlatMap([k \in DOMAIN placed |->
               IF placed[k] = <<>> \/ \E x \in 1 .. (k - 1) : placed[x] = placed[k]
               THEN <<>> ELSE <<placed[k]>>],
            Len(placed))

(* _materialize_additions_from_words: the placements of the words in       *)
(* order, each placement once.                                             *)
materialize_additions_from_words(b, axis, anchor, words, meta, rack) ==
    each_once([k \in DOMAIN words |->
                  materialize_word(b, axis, anchor, words[k], meta, rack)])

RECURSIVE list_of(_)
(* list(S) of a set: its members in an order of the interpreter's choice;  *)
(* used only where the order does not reach the result.                    *)
list_of(S) == IF S = {} THEN <<>>
              ELSE LET x == CHOOSE x \in S : TRUE IN <<x>> \o list_of(S \ {x})

(* try: ... except Exception: words = [].                                  *)
words_or_none(generated) == IF generated.err = "ok" THEN generated.words ELSE {}

(* The words dpg.generate gives for a pattern of an anchor.                *)
words_of_pattern(pat, deck_base) ==
    words_or_none(dpg_generate(pat.pattern, deck_base \o pat.fixed, dictionary_lines))

(* _check_word_valid(adds) returned True (it raises otherwise).            *)
placement_valid(b, adds) == \E r \in check_word_valid(b, adds) : r.err = "ok"

-----------------------------------------------------------------------------
(* The strategies.  A job is one (anchor, axis, pattern) the loops of a    *)
(* strategy visit; the jobs are listed in the order of the loops.          *)

jobs_of_patterns(patterns, anchor, axis) ==
    [k \in DOMAIN patterns |-> [anchor |-> anchor, axis |-> axis, pat |-> patterns[k]]]

(* The jobs of the anchors, each anchor with the axes the strategy         *)
(* searches at it: axes maps a cell to the list of its axes.               *)
jobs_on(b, deck, anchors, axes) ==
    FlatMap([a \in DOMAIN anchors |->
               FlatMap([x \in DOMAIN axes[anchors[a]] |->
                          jobs_of_patterns(
                              build_all_dynamic_patterns(b, deck, anchors[a],
                                                         axes[anchors[a]][x]),
                              anchors[a], axes[anchors[a]][x])],
                       Len(axes[anchors[a]]))],
            Len(anchors))

(* A candidate: the placement, the job that gave it and its score.         *)
candidate(b, job, k, adds) ==
    [adds |-> adds, job |-> k, anchor |-> job.anchor, axis |-> job.axis, pat |-> job.pat,
     score |-> score_calculator(b, adds, FALSE)]

max_score_of(scored) == SetMax({scored[i].score : i \in DOMAIN scored})

(* The candidates of maximal score, in the order of the list scored.       *)
best_of(scored) == SelectSeq(scored, LAMBDA c : c.score = max_score_of(scored))

(* The words of the longest length for which spg.generate found a match,   *)
(* or the error of a longer length.                                        *)
first_found(matching_words, bound) ==
    IF \E length \in 1 .. bound :
          /\ matching_words[length].err # "ok"
          /\ \A longer \in (length + 1) .. bound : matching_words[longer].words = <<>>
    THEN [err |-> matching_words[bound].err, words |-> <<>>]
    ELSE IF \A length \in 1 .. bound : matching_words[length].words = <<>>
    THEN [err |-> "ok", words |-> <<>>]
    ELSE [err |-> "ok",
          words |-> matching_words[SetMax({length \in 1 .. bound :
                                              matching_words[length].words # <<>>})].words]

(* OptimiserLength._find_start_word.                                       *)
find_start_word(deck, upper_bound) ==
    first_found([length \in 1 .. (IF upper_bound < 1 \/ upper_bound > Len(deck)
                                  THEN Len(deck) ELSE upper_bound) |->
                    spg_generate(underscores(length),
                                 Take(deck, IF upper_bound < 1 \/ upper_bound > Len(deck)
                                            THEN Len(deck) ELSE upper_bound),
                                 dictionary_lines)],
                IF upper_bound < 1 \/ upper_bound > Len(deck) THEN Len(deck)
                ELSE upper_bound)

longest_jobs(b, deck) ==
    jobs_on(b, deck, find_anchor_positions(b), [anchor \in Cells |-> <<"H", "V">>])

(* The words of maximal length among accepted, each with its placement.    *)
longest_of(accepted) == {p \in accepted : \A x \in accepted : Len(x.word) <= Len(p.word)}

(* A word is accepted when its placement exists, is valid and was not      *)
(* seen before.                                                            *)
accepted_placement(b, additions_sets, seen_additions) ==
    /\ additions_sets # <<>>
    /\ placement_valid(b, additions_sets[1])
    /\ additions_sets[1] \notin seen_additions

(* The words the loop over the sorted words of a job can stop at, each     *)
(* with its placement: sort() orders by length only, words of one length   *)
(* stay in the order the set of generated words was listed in, which is    *)
(* any order.                                                              *)
longest_picks(b, job, deck_base, seen_additions) ==
    longest_of({p \in {[word |-> w,
                        additions_sets |->
                            materialize_additions_from_words(b, job.axis, job.anchor, <<w>>,
                                                             job.pat.meta, deck_base)] :
                          w \in words_of_pattern(job.pat, deck_base)} :
                   accepted_placement(b, p.additions_sets, seen_additions)})

RECURSIVE longest_candidates(_, _, _, _, _)
(* Every list of candidates the loops over anchors, axes and patterns can  *)
(* collect.                                                                *)
longest_candidates(b, jobs, k, deck_base, candidates) ==
    IF k > Len(jobs) THEN {candidates}
    ELSE UNION {longest_candidates(b, jobs, k + 1, deck_base, next_candidates) :
                  next_candidates \in
                      LET retain(picks) ==
                              IF picks = {} THEN {candidates}
                              ELSE {Append(candidates,
                                           [word |-> p.word] @@
                                           candidate(b, jobs[k], k, p.additions_sets[1])) :
                                      p \in picks}
                      IN  retain(longest_picks(b, jobs[k], deck_base,
                                               {candidates[i].adds :
                                                  i \in DOMAIN candidates}))}

(* The value OptimiserLength returns: words on an empty board, else the    *)
(* best placements, each a bare list of tiles.                             *)
start_words(start) ==
    [err |-> start.err,
     value |-> [i \in DOMAIN start.words |-> [shape |-> "word", word |-> start.words[i]]],
     candidates |-> {}]

best_additions(c) ==
    [err |-> "ok",
     value |-> IF c = <<>> THEN <<>>
               ELSE [i \in DOMAIN best_of(c) |->
                        [shape |-> "additions", adds |-> best_of(c)[i].adds]],
     candidates |-> Range(c)]

(* OptimiserLength.recommend_next_move: every outcome of one call.         *)
recommend_longest(b, deck) ==
    IF board_is_empty(b) THEN {start_words(find_start_word(deck, Len(deck)))}
    ELSE {best_additions(c) :
             c \in longest_candidates(b, longest_jobs(b, deck), 1, upper_str(deck), <<>>)}

(* The names class OptimiserLength defines.                                *)
optimiser_length_attributes ==
    {"__init__", "_find_start_word", "recommend_next_move", "_find_anchor_positions",
     "_scan_side_for_blocks", "_build_pattern_from_selection", "_simplify_pattern",
     "_build_all_dynamic_patterns", "_calculate_anchor_index_in_word",
     "_materialize_additions_from_words"}

(* self.ol._dedup_additions_sets(best_adds): the attribute lookup raises   *)
(* AttributeError when the class does not define the name.                 *)
dedup_best(best, candidates) ==
    IF "_dedup_additions_sets" \in optimiser_length_attributes
    THEN [err |-> "ok",
          value |-> [i \in DOMAIN best |->
                        [shape |-> "pair", adds |-> best[i].adds, score |-> best[i].score]],
          candidates |-> candidates]
    ELSE [err |-> "AttributeError", value |-> <<>>, candidates |-> candidates]

(* The placements of each job without those an earlier job gave.           *)
first_seen(placements) ==
    {ka \in UNION {{k} \X placements[k] : k \in DOMAIN placements} :
        \A x \in 1 .. (ka[1] - 1) : ka[2] \notin placements[x]}

(* OptimiserPrize._is_prized_cell.                                         *)
is_prized_cell_any_empty(b, p) == b[p] = ""

is_prized_cell(b, p) ==
    IF b[p] # "" THEN FALSE
    ELSE word_multiplier[p] > 1 \/ letter_multiplier[p] > 1

(* any(self._is_prized_cell(pos[0], pos[1]) for _, pos in adds).           *)
covers_prized_cell(b, adds) == \E i \in DOMAIN adds : is_prized_cell(b, Pos(adds[i]))

(* The test a strategy makes on a placement before validating it:         *)
(* Prize-Seeking asks for a prized cell, Crossword-Forming for nothing.    *)
passes_filter(strategy, b, adds) == strategy = "PrizeCells" => covers_prized_cell(b, adds)

(* The candidates a strategy that keeps every valid placement appends:     *)
(* the placements of each job that pass the strategy's test and are valid, *)
(* a placement seen in an earlier job left out.                            *)
all_candidates(b, jobs, rack, strategy) ==
    {candidate(b, jobs[ka[1]], ka[1], ka[2]) :
        ka \in first_seen(
                  [k \in DOMAIN jobs |->
                      {adds \in Range(materialize_additions_from_words(
                                          b, jobs[k].axis, jobs[k].anchor,
                                          list_of(words_of_pattern(jobs[k].pat, rack)),
                                          jobs[k].pat.meta, rack)) :
                          passes_filter(strategy, b, adds) /\ placement_valid(b, adds)}])}

(* The outcome of a strategy that ends with the dedup safeguard.           *)
best_deduplicated(candidates) ==
    IF candidates = {} THEN [err |-> "ok", value |-> <<>>, candidates |-> {}]
    ELSE dedup_best(best_of(list_of(candidates)), candidates)

(* OptimiserPrize.                                                         *)
prize_anchors(b) == IF board_is_empty(b) THEN <<<<7, 7>>>> ELSE find_anchor_positions(b)

prize_jobs(b, deck) == jobs_on(b, deck, prize_anchors(b), [anchor \in Cells |-> <<"H", "V">>])

recommend_prize(b, deck) ==
    best_deduplicated(all_candidates(b, prize_jobs(b, upper_str(deck)), upper_str(deck),
                                     "PrizeCells"))

(* OptimiserCrossword.                                                     *)
has_vert_neighbor(b, p) ==
    \/ p[1] > 0 /\ b[<<p[1] - 1, p[2]>>] # ""
    \/ p[1] < BoardSize - 1 /\ b[<<p[1] + 1, p[2]>>] # ""

has_horiz_neighbor(b, p) ==
    \/ p[2] > 0 /\ b[<<p[1], p[2] - 1>>] # ""
    \/ p[2] < BoardSize - 1 /\ b[<<p[1], p[2] + 1>>] # ""

crossword_axes_along(b, anchor) ==
    (IF has_horiz_neighbor(b, anchor) THEN <<"H">> ELSE <<>>)
    \o (IF has_vert_neighbor(b, anchor) THEN <<"V">> ELSE <<>>)

crossword_axes(b, anchor) ==
    (IF has_vert_neighbor(b, anchor) THEN <<"H">> ELSE <<>>)
    \o (IF has_horiz_neighbor(b, anchor) THEN <<"V">> ELSE <<>>)

crossword_jobs(b, deck) ==
    jobs_on(b, deck, find_anchor_positions(b), [anchor \in Cells |-> crossword_axes(b, anchor)])

recommend_crossword(b, deck) ==
    IF board_is_empty(b) THEN [err |-> "ok", value |-> <<>>, candidates |-> {}]
    ELSE best_deduplicated(all_candidates(b, crossword_jobs(b, upper_str(deck)),
                                          upper_str(deck), "Crossword"))

(* The dictionary the aggregator returns, or the exception of the first    *)
(* strategy that raised.                                                   *)
results_of(outcomes, keys) ==
    [err |-> IF \A i \in DOMAIN outcomes : outcomes[i].err = "ok" THEN "ok"
             ELSE outcomes[SetMin({i \in DOMAIN outcomes : outcomes[i].err # "ok"})].err,
     value |-> IF \A i \in DOMAIN outcomes : outcomes[i].err = "ok"
               THEN [key \in Range(keys) |->
                        outcomes[CHOOSE i \in DOMAIN keys : keys[i] = key].value]
               ELSE <<>>,
     checked |-> UNION {IF \A x \in 1 .. (i - 1) : outcomes[x].err = "ok"
                        THEN {c.adds : c \in outcomes[i].candidates} ELSE {} :
                          i \in DOMAIN outcomes}]

(* AggregateRecommender.recommend_next_move: every outcome of one call.    *)
recommend_aggregate(b, deck) ==
    IF board_is_empty(b)
    THEN {results_of(<<recommend_prize(b, deck)>>, <<"PrizeCells">>)}
    ELSE {results_of(<<longest_moves, prize_moves, cross_moves>>,
                     <<"LongestWord", "PrizeCells", "Crossword">>) :
             longest_moves \in recommend_longest(b, deck),
             prize_moves \in {recommend_prize(b, deck)},
             cross_moves \in {recommend_crossword(b, deck)}}

-----
(* The callers' inputs.                                                    *)

MaxMoves == 2

Axes == {"H", "V"}

step(axis) == IF axis = "H" THEN <<0, 1>> ELSE <<1, 0>>

(* letters laid from start along axis on consecutive cells.                *)
lay(letters, axis, start) ==
    [i \in DOMAIN letters |->
        <<letters[i], <<start[1] + (i - 1) * step(axis)[1],
                        start[2] + (i - 1) * step(axis)[2]>>>>]

RECURSIVE lay_free(_, _, _, _)
(* letters laid from start along axis on the next empty cells of b, as a   *)
(* player lays tiles around the tiles already on the board.                *)
lay_free(b, letters, axis, start) ==
    IF letters = <<>> \/ ~InBounds(start) THEN <<>>
    ELSE LET next == <<start[1] + step(axis)[1], start[2] + step(axis)[2]>>
         IN  IF b[start] # "" THEN lay_free(b, letters, axis, next)
             ELSE <<<<Head(letters), start>>>> \o lay_free(b, Tail(letters), axis, next)

(* The racks' tile strings played in the games.                            *)
TileStrings ==
    {<<"A">>, <<"T">>, <<"C">>,
     <<"A", "T">>, <<"-", "T">>, <<"C", "T">>, <<"A", "S">>,
     <<"C", "A", "T">>, <<"C", "-", "T">>}

StartCells == {<<7, 6>>, <<7, 7>>, <<8, 7>>}

(* Placements with a repeated cell, a gap, off the line, off the board.    *)
OddInputs ==
    {<<>>,
     <<<<"C", <<7, 7>>>>, <<"T", <<7, 7>>>>, <<"A", <<7, 9>>>>>>,
     <<<<"Q", <<7, 4>>>>, <<"Q", <<7, 4>>>>, <<"X", <<7, 6>>>>>>,
     <<<<"A", <<7, 7>>>>, <<"T", <<7, 9>>>>>>,
     <<<<"A", <<7, 7>>>>, <<"T", <<8, 8>>>>>>,
     <<<<"A", <<7, 14>>>>, <<"T", <<7, 15>>>>>>,
     <<<<"A", <<0, 0>>>>>>,
     <<<<"T", <<8, 8>>>>>>,
     <<<<"T", <<6, 8>>>>>>,
     <<<<"A", <<8, 8>>>>, <<"A", <<8, 8>>>>, <<"S", <<8, 10>>>>>>}

Inputs(b) ==
    {lay(letters, axis, start) : letters \in TileStrings, axis \in Axes, start \in StartCells}
    \cup {lay_free(b, letters, axis, start) :
             letters \in TileStrings, axis \in Axes, start \in StartCells}
    \cup OddInputs

(* What the tests score without playing: premium cells away from the       *)
(* centre, a full rack, resolved blanks.                                   *)
ScoreExamples ==
    {lay(<<"Q", "U", "I", "T", "E">>, "H", <<7, 3>>),
     lay(<<"I", "N", "F", "a", "N", "C", "Y">>, "H", <<9, 3>>),
     lay(<<"I", "N", "F", "A", "N", "C", "Y">>, "H", <<4, 4>>),
     lay(<<"c", "A", "T">>, "H", <<1, 1>>),
     lay(<<"c", "A", "T">>, "H", <<0, 3>>),
     lay(<<"c", "a", "t">>, "V", <<7, 7>>),
     lay(<<"C", "A", "T">>, "H", <<8, 9>>)}

(* score_calculator, _check_word_valid and _get_all_affected_words index   *)
(* the board with the positions they are given and are called after the    *)
(* positional checks: tiles on the board, on empty cells, on one line.     *)
Placeable(b, additions) ==
    /\ \A i \in DOMAIN additions : InBounds(Pos(additions[i]))
    /\ \A i \in DOMAIN additions : b[Pos(additions[i])] = ""
    /\ Cardinality(Rows(additions)) <= 1 \/ Cardinality(Cols(additions)) <= 1

-----------------------------------------------------------------------------
(* The state machine: a caller invokes one method of the Game object, the  *)
(* method runs to its end, and the caller sees the outcome in call.        *)

NoCall ==
    [op |-> "none", additions |-> <<>>, bingo |-> FALSE, before |-> EmptyBoard,
     stage |-> "", err |-> "", out |-> <<>>, words |-> {}, score |-> 0,
     pattern |-> <<>>, deck |-> <<>>, word_list |-> <<>>, result |-> <<>>,
     value |-> <<>>, candidates |-> {},
     anchor |-> <<0, 0>>, axis |-> "", direction |-> "", rack_len |-> 0,
     scan |-> [blocks |-> <<>>, gaps |-> <<>>, tail_max |-> 0],
     patterns |-> <<>>, meta |-> <<>>, rack |-> <<>>, placements |-> <<>>]

Init ==
    /\ board = EmptyBoard
    /\ moves = 0
    /\ blanks = {}
    /\ pc = "idle"
    /\ call = NoCall

NewMove(additions) ==
    /\ pc = "idle"
    /\ moves < MaxMoves
    /\ \E r \in new_move(board, additions) :
          /\ board' = r.board
          /\ moves' = IF r.err = "ok" THEN moves + 1 ELSE moves
          /\ blanks' = IF r.err = "ok" THEN blanks \cup blank_positions(r.additions)
                       ELSE blanks
          /\ call' = [NoCall EXCEPT !.op = "new_move", !.additions = additions,
                                    !.before = board, !.stage = r.stage, !.err = r.err,
                                    !.out = r.additions, !.score = r.score]
    /\ pc' = "returned"

VerifyWordAddition(additions) ==
    /\ pc = "idle"
    /\ call' = [NoCall EXCEPT !.op = "verify_word_addition", !.additions = additions,
                              !.before = board,
                              !.err = verify_word_addition(board, additions)]
    /\ pc' = "returned"
    /\ UNCHANGED <<board, moves, blanks>>

CheckBoardValid(additions) ==
    /\ pc = "idle"
    /\ call' = [NoCall EXCEPT !.op = "check_board_valid", !.additions = additions,
                              !.before = board,
                              !.err = check_board_valid(board, additions)]
    /\ pc' = "returned"
    /\ UNCHANGED <<board, moves, blanks>>

GetAllAffectedWords(additions) ==
    /\ pc = "idle"
    /\ verify_word_addition(board, additions) = "ok"
    /\ call' = [NoCall EXCEPT !.op = "get_all_affected_words", !.additions = additions,
                              !.before = board, !.err = "ok",
                              !.words = get_all_affected_words(board, additions)]
    /\ board' = board_after_words(board, additions)
    /\ pc' = "returned"
    /\ UNCHANGED <<moves, blanks>>

CheckWordValid(additions) ==
    /\ pc = "idle"
    /\ Placeable(board, additions)
    /\ \E r \in check_word_valid(board, additions) :
          /\ call' = [NoCall EXCEPT !.op = "check_word_valid", !.additions = additions,
                                    !.before = board, !.err = r.err, !.out = r.additions]
          /\ board' = board_after_words(board, r.additions)
    /\ pc' = "returned"
    /\ UNCHANGED <<moves, blanks>>

ScoreCalculator(additions, bingo) ==
    /\ pc = "idle"
    /\ Placeable(board, additions)
    /\ call' = [NoCall EXCEPT !.op = "score_calculator", !.additions = additions,
                              !.bingo = bingo, !.before = board, !.err = "ok",
                              !.score = score_calculator(board, additions, bingo)]
    /\ board' = board_after_words(board, additions)
    /\ pc' = "returned"
    /\ UNCHANGED <<moves, blanks>>

(* The caller has read the outcome.                                        *)
Return ==
    /\ pc = "returned"
    /\ pc' = "idle"
    /\ call' = NoCall
    /\ UNCHANGED <<board, moves, blanks>>

(* The inputs a caller may pass now: none while a call is being read.      *)
CallerInputs == IF pc = "idle" THEN Inputs(board) ELSE {}

CallerScoreInputs == IF pc = "idle" THEN Inputs(board) \cup ScoreExamples ELSE {}

Next ==
    \/ \E additions \in CallerInputs : NewMove(additions)
    \/ \E additions \in CallerInputs : VerifyWordAddition(additions)
    \/ \E additions \in CallerInputs : CheckBoardValid(additions)
    \/ \E additions \in CallerInputs : GetAllAffectedWords(additions)
    \/ \E additions \in CallerInputs : CheckWordValid(additions)
    \/ \E additions \in CallerScoreInputs, bingo \in BOOLEAN :
          ScoreCalculator(additions, bingo)
    \/ Return

Spec == Init /\ [][Next]_vars

-----------------------------------------------------------------------------
(* The pattern generators, called with patterns, decks and word lists.     *)

MaxPatternLen == 3

MaxDeckLen == 3

StringsUpTo(alphabet, n) == UNION {[1 .. k -> alphabet] : k \in 0 .. n}

PatternChars == {"A", "t", "_"}

DeckChars == {"A", "T", "c", "-"}

FixedPatterns == StringsUpTo(PatternChars, MaxPatternLen) \cup {<<"_", "1">>, <<"-", "A">>}

Decks == StringsUpTo(DeckChars, MaxDeckLen) \cup {<<"A", "_">>, <<"A", " ", "T">>}

WordLists ==
    {<<<<"a", "t">>, <<"t", "a">>, <<"c", "a", "t">>, <<"a", "c", "t">>,
       <<"t", "a", "t">>, <<"a">>, <<"t", "a", "c", "t">>, <<"a", "t", "t">>>>,
     <<<<"C", "a", "t">>, <<"A", "T">>, <<"a", "t">>, <<"t", "a", "t", "a">>,
       <<"a", "a">>, <<"t", "t">>>>}

SpgGenerate(pattern, deck, word_list) ==
    /\ pc = "idle"
    /\ call' = [NoCall EXCEPT !.op = "spg_generate", !.pattern = pattern, !.deck = deck,
                              !.word_list = word_list,
                              !.err = spg_generate(pattern, deck, word_list).err,
                              !.result = spg_generate(pattern, deck, word_list).words]
    /\ pc' = "returned"
    /\ UNCHANGED <<board, moves, blanks>>

MaxTokens == 3

PatternTokens ==
    {<<"A">>, <<"t">>, <<"_">>, <<"(">>,
     <<"(", "0", ",", "1", ")">>, <<"(", "0", ",", "2", ")">>,
     <<"(", "1", ",", "2", ")">>, <<"(", "2", ",", "1", ")">>}

RECURSIVE Joined(_)
Joined(tokens) == IF tokens = <<>> THEN <<>> ELSE Head(tokens) \o Joined(Tail(tokens))

DynamicPatterns == {Joined(tokens) : tokens \in StringsUpTo(PatternTokens, MaxTokens)}

DynamicDecks ==
    {<<>>, <<"T">>, <<"A", "T">>, <<"a", "-">>, <<"T", "A", "C">>, <<"C", "A", "T", "-">>,
     <<"A", "1">>}

DpgGenerate(pattern, deck, word_list) ==
    /\ pc = "idle"
    /\ call' = [NoCall EXCEPT !.op = "dpg_generate", !.pattern = pattern, !.deck = deck,
                              !.word_list = word_list,
                              !.err = dpg_generate(pattern, deck, word_list).err,
                              !.result = dpg_generate(pattern, deck, word_list).words]
    /\ pc' = "returned"
    /\ UNCHANGED <<board, moves, blanks>>

NextPatterns ==
    \/ \E pattern \in FixedPatterns, deck \in Decks, word_list \in WordLists :
          SpgGenerate(pattern, deck, word_list)
    \/ \E pattern \in DynamicPatterns, deck \in DynamicDecks, word_list \in WordLists :
          DpgGenerate(pattern, deck, word_list)
    \/ Return

SpecPatterns == Init /\ [][NextPatterns]_vars

-----------------------------------------------------------------------------
(* The strategies, called with a rack on the boards a few moves build.     *)

at_centre == <<<<"A", <<7, 7>>>>, <<"T", <<7, 8>>>>>>

PlayerMoves ==
    {at_centre,
     <<<<"C", <<7, 6>>>>>>,
     <<<<"T", <<8, 7>>>>, <<"A", <<8, 8>>>>>>,
     <<<<"C", <<7, 7>>>>, <<"A", <<8, 7>>>>, <<"T", <<9, 7>>>>>>,
     <<<<"S", <<7, 9>>>>>>,
     <<<<"A", <<0, 0>>>>>>}

PlayerDecks ==
    {<<"C">>, <<"T", "A">>, <<"C", "A", "T">>, <<"C", "A", "T", "S">>, <<"c", "-">>}

(* The placements a strategy handed to _check_word_valid and               *)
(* score_calculator and kept.                                              *)
checked_placements(candidates) == {c.adds : c \in candidates}

RecommendLongest(deck) ==
    /\ pc = "idle"
    /\ \E r \in recommend_longest(board, deck) :
          /\ call' = [NoCall EXCEPT !.op = "recommend_longest", !.deck = deck,
                                    !.before = board, !.err = r.err, !.value = r.value,
                                    !.candidates = r.candidates]
          /\ board' = board_after_calls(board, list_of(checked_placements(r.candidates)))
    /\ pc' = "returned"
    /\ UNCHANGED <<moves, blanks>>

RecommendPrize(deck) ==
    /\ pc = "idle"
    /\ \E r \in {recommend_prize(board, deck)} :
           /\ call' = [NoCall EXCEPT !.op = "recommend_prize", !.deck = deck,
                                     !.before = board, !.err = r.err, !.value = r.value,
                                     !.candidates = r.candidates]
           /\ board' = board_after_calls(board, list_of(checked_placements(r.candidates)))
    /\ pc' = "returned"
    /\ UNCHANGED <<moves, blanks>>

RecommendCrossword(deck) ==
    /\ pc = "idle"
    /\ \E r \in {recommend_crossword(board, deck)} :
           /\ call' = [NoCall EXCEPT !.op = "recommend_crossword", !.deck = deck,
                                     !.before = board, !.err = r.err, !.value = r.value,
                                     !.candidates = r.candidates]
           /\ board' = board_after_calls(board, list_of(checked_placements(r.candidates)))
    /\ pc' = "returned"
    /\ UNCHANGED <<moves, blanks>>

RecommendAggregate(deck) ==
    /\ pc = "idle"
    /\ \E r \in recommend_aggregate(board, deck) :
          /\ call' = [NoCall EXCEPT !.op = "recommend_aggregate", !.deck = deck,
                                    !.before = board, !.err = r.err, !.value = r.value]
          /\ board' = board_after_calls(board, list_of(r.checked))
    /\ pc' = "returned"
    /\ UNCHANGED <<moves, blanks>>

PlayerInputs == IF pc = "idle" THEN PlayerMoves ELSE {}

NextPlayers ==
    \/ \E additions \in PlayerInputs : NewMove(additions)
    \/ \E additions \in PlayerInputs : GetAllAffectedWords(additions)
    \/ \E additions \in PlayerInputs : CheckWordValid(additions)
    \/ \E additions \in PlayerInputs : ScoreCalculator(additions, FALSE)
    \/ \E deck \in PlayerDecks : RecommendLongest(deck)
    \/ \E deck \in PlayerDecks : RecommendPrize(deck)
    \/ \E deck \in PlayerDecks : RecommendCrossword(deck)
    \/ \E deck \in PlayerDecks : RecommendAggregate(deck)
    \/ Return

SpecPlayers == Init /\ [][NextPlayers]_vars

-----------------------------------------------------------------------------
(* The helpers of OptimiserLength, called on boards set cell by cell with  *)
(* an anchor, an axis and a rack.                                          *)

MaxRack == 4

(* optimizer.game.board = board: rows of blocks, one board with a block at *)
(* the edge.                                                               *)
AnchorBoards ==
    {overlay(EmptyBoard, lay(<<"C", "A", "T">>, "H", <<7, 4>>)
                         \o lay(<<"D", "O", "G">>, "H", <<7, 10>>)),
     overlay(EmptyBoard, <<<<"A", <<7, 4>>>>, <<"Z", <<7, 11>>>>>>),
     overlay(EmptyBoard, <<<<"X", <<7, 2>>>>>> \o lay(<<"A", "B">>, "H", <<7, 4>>)),
     overlay(EmptyBoard, lay(<<"C", "A", "T">>, "H", <<7, 6>>)),
     overlay(EmptyBoard, lay(<<"A", "T">>, "H", <<7, 7>>)),
     overlay(EmptyBoard, lay(<<"A", "T">>, "V", <<13, 7>>))}

AnchorCells == {<<7, 8>>, <<7, 6>>, <<7, 9>>, <<7, 5>>, <<7, 3>>, <<6, 7>>, <<12, 7>>, <<11, 7>>}

AnchorDecks ==
    {<<>>, <<"S">>, <<"T", "A">>, <<"a", "-">>, <<"t", "-">>, <<"C", "A", "T">>,
     <<"C", "A", "T", "S">>}

InitAnchors ==
    /\ board \in AnchorBoards
    /\ moves = 0
    /\ blanks = {}
    /\ pc = "idle"
    /\ call = NoCall

ScanSideForBlocks(anchor, axis, direction, rack_len) ==
    /\ pc = "idle"
    /\ board[anchor] = ""
    /\ call' = [NoCall EXCEPT !.op = "scan_side_for_blocks", !.before = board,
                              !.anchor = anchor, !.axis = axis, !.direction = direction,
                              !.rack_len = rack_len,
                              !.scan = scan_side_for_blocks(board, anchor, axis, direction,
                                                            rack_len)]
    /\ pc' = "returned"
    /\ UNCHANGED <<board, moves, blanks>>

BuildAllDynamicPatterns(deck, anchor, axis) ==
    /\ pc = "idle"
    /\ board[anchor] = ""
    /\ call' = [NoCall EXCEPT !.op = "build_all_dynamic_patterns", !.before = board,
                              !.deck = deck, !.anchor = anchor, !.axis = axis,
                              !.rack_len = Len(deck),
                              !.patterns = build_all_dynamic_patterns(board, deck, anchor,
                                                                      axis)]
    /\ pc' = "returned"
    /\ UNCHANGED <<board, moves, blanks>>

(* The strategies' call: a pattern of the anchor, the words dpg.generate   *)
(* matched with it (one of them or all of them in some order), and as rack *)
(* the deck in upper case (OptimiserLength, OptimiserCrossword) or as it   *)
(* is (OptimiserPrizeCells).                                               *)
MaterializeAdditionsFromWords(deck, anchor, axis) ==
    /\ pc = "idle"
    /\ board[anchor] = ""
    /\ \E patterns \in {build_all_dynamic_patterns(board, deck, anchor, axis)} :
         \E k \in DOMAIN patterns :
           \E matched \in {words_of_pattern(patterns[k], upper_str(deck))} :
             \E words \in {<<w>> : w \in matched} \cup {list_of(matched)} :
               \E rack \in {upper_str(deck), deck} :
                call' = [NoCall EXCEPT !.op = "materialize_additions_from_words",
                                       !.before = board, !.deck = deck, !.anchor = anchor,
                                       !.axis = axis, !.meta = patterns[k].meta,
                                       !.word_list = words, !.rack = rack,
                                       !.placements =
                                           materialize_additions_from_words(
                                               board, axis, anchor, words, patterns[k].meta,
                                               rack)]
    /\ pc' = "returned"
    /\ UNCHANGED <<board, moves, blanks>>

AnchorInputs == IF pc = "idle" THEN AnchorCells ELSE {}

NextAnchors ==
    \/ \E anchor \in AnchorInputs, axis \in Axes, direction \in {"left", "right"},
          rack_len \in 0 .. MaxRack :
          ScanSideForBlocks(anchor, axis, direction, rack_len)
    \/ \E deck \in AnchorDecks, anchor \in AnchorInputs, axis \in Axes :
          BuildAllDynamicPatterns(deck, anchor, axis)
    \/ \E deck \in AnchorDecks, anchor \in AnchorInputs, axis \in Axes :
          MaterializeAdditionsFromWords(deck, anchor, axis)
    \/ Return

SpecAnchors == InitAnchors /\ [][NextAnchors]_vars

-----------------------------------------------------------------------------
(* Properties.  A returned call is read from call: its input, the board it *)
(* was made on (call.before) and what it gave back.                        *)

Returned(op) == pc = "returned" /\ call.op = op

Occupied(b) == {p \in Cells : b[p] # ""}

Between(p, q) ==
    {x \in Cells : /\ SetMin({p[1], q[1]}) <= x[1] /\ x[1] <= SetMax({p[1], q[1]})
                   /\ SetMin({p[2], q[2]}) <= x[2] /\ x[2] <= SetMax({p[2], q[2]})}

ContiguousWithBoard(b, additions) ==
    \A p \in Positions(additions), q \in Positions(additions) :
        \A x \in Between(p, q) : x \in Positions(additions) \/ b[x] # ""

C2_GeometryAcceptsExactlyContiguous ==
    Returned("verify_word_addition") =>
        (call.err = "ok" <=>
            /\ call.additions # <<>>
            /\ \A p \in Positions(call.additions) : InBounds(p) /\ call.before[p] = ""
            /\ Cardinality(Rows(call.additions)) = 1 \/ Cardinality(Cols(call.additions)) = 1
            /\ ContiguousWithBoard(call.before, call.additions))

(* C3: _check_board_valid accepts, on a board without tiles, exactly the   *)
(* placements with a tile on the centre cell (7,7), and on a board with    *)
(* tiles exactly the placements with a tile orthogonally next to a cell    *)
(* that was occupied before the move.                                      *)
Abs(n) == IF n < 0 THEN -n ELSE n

NextTo(p, q) == Abs(p[1] - q[1]) + Abs(p[2] - q[2]) = 1

C3_BoardRuleCentreOrTouching ==
    Returned("check_board_valid") =>
        (call.err = "ok" <=>
            IF Occupied(call.before) = {}
            THEN <<7, 7>> \in Positions(call.additions)
            ELSE \E p \in Positions(call.additions), q \in Occupied(call.before) :
                    NextTo(p, q))

(* C3 witness: a placement that touches a tile of an earlier move only     *)
(* from below or above is accepted.                                        *)
C3_Witness ==
    /\ Returned("check_board_valid")
    /\ call.err = "ok"
    /\ Occupied(call.before) # {}
    /\ <<7, 7>> \notin Positions(call.additions)
    /\ \E p \in Positions(call.additions), q \in Occupied(call.before) :
          NextTo(p, q) /\ p[2] = q[2]

(* C4: for a placement that passes the geometry check,                    *)
(* _get_all_affected_words returns exactly the letter strings of the       *)
(* maximal occupied runs through the new tiles along the placement's axis  *)
(* and, for each new tile, across it, read on the board with the placement *)
(* overlaid, keeping the runs of two or more cells.                        *)
RunCells(temp, p, d) ==
    {x \in Cells :
        /\ (x[1] - p[1]) * d[2] = (x[2] - p[2]) * d[1]
        /\ \A y \in Between(p, x) : temp[y] # ""}

RunWord(temp, p, d) ==
    LET cells == RunCells(temp, p, d)
        first == CHOOSE x \in cells : \A y \in cells : x[1] <= y[1] /\ x[2] <= y[2]
    IN  [k \in 1 .. Cardinality(cells) |->
            temp[<<first[1] + (k - 1) * d[1], first[2] + (k - 1) * d[2]>>]]

AffectedWordsByDefinition(b, additions) ==
    LET temp == overlay(b, additions)
        along == IF Cardinality(Rows(additions)) = 1 THEN <<0, 1>> ELSE <<1, 0>>
        across == <<along[2], along[1]>>
    IN  {w \in {RunWord(temp, p, along) : p \in Positions(additions)}
               \cup {RunWord(temp, p, across) : p \in Positions(additions)} :
            Len(w) >= 2}

C4_AffectedWordsAreTheRuns ==
    Returned("get_all_affected_words") =>
        call.words = AffectedWordsByDefinition(call.before, call.additions)

(* C5: when _check_word_valid succeeds on a placement with wildcards, the  *)
(* wildcard tiles carry lower-case letters whose upper-case forms make     *)
(* every affected word a dictionary word, the other tiles are unchanged,   *)
(* and the resolved placement passes _check_word_valid again unchanged.    *)
C5_WildcardsResolvedToValidLetters ==
    (Returned("check_word_valid") /\ call.err = "ok") =>
        LET a == call.additions
            out == call.out
            resolved == [i \in DOMAIN out |->
                            IF Ch(a[i]) = "-" THEN <<upper(Ch(out[i])), Pos(out[i])>>
                            ELSE out[i]]
        IN  /\ DOMAIN out = DOMAIN a
            /\ \A i \in DOMAIN a : Pos(out[i]) = Pos(a[i])
            /\ \A i \in DOMAIN a : Ch(a[i]) # "-" => out[i] = a[i]
            /\ \A i \in DOMAIN a : Ch(a[i]) = "-" => Ch(out[i]) \in LowerSet
            /\ \A i \in DOMAIN a : Ch(resolved[i]) \in UpperSet \/ Ch(a[i]) # "-"
            /\ \A word \in get_all_affected_words(call.before, resolved) :
                  lower_word(word) \in scrabble_dictionary
            /\ check_word_valid(call.before, out) = {[err |-> "ok", additions |-> out]}
            /\ board = call.before

(* C5 witness: a wildcard was resolved on a board with tiles, where the    *)
(* new tiles form a word with tiles of an earlier move.                    *)
C5_Witness ==
    /\ Returned("check_word_valid")
    /\ call.err = "ok"
    /\ \E i \in DOMAIN call.additions : Ch(call.additions[i]) = "-"
    /\ Occupied(call.before) # {}
    /\ get_all_affected_words(call.before, call.out) # {}

-----------------------------------------------------------------------------
(* Scoring by the rule book, for the properties of score_calculator.       *)

RECURSIVE SumFn(_, _)
SumFn(f, S) ==
    IF S = {} THEN 0
    ELSE LET x == CHOOSE y \in S : TRUE IN f[x] + SumFn(f, S \ {x})

RECURSIVE ProdFn(_, _)
ProdFn(f, S) ==
    IF S = {} THEN 1
    ELSE LET x == CHOOSE y \in S : TRUE IN f[x] * ProdFn(f, S \ {x})

(* The cells of the tiles given as a lower-case letter.                    *)
LowerCaseTiles(additions) ==
    {p \in Positions(additions) :
        \E i \in DOMAIN additions : Pos(additions[i]) = p /\ Ch(additions[i]) \in LowerSet}

(* One word: (sum of base values, a new cell's times its letter premium)   *)
(* times (product of the word premiums of the word's new cells); the cells *)
(* in zero have base value 0.                                              *)
WordScoreByRule(b, additions, zero, w) ==
    LET temp == overlay(b, norm_additions(additions))
        new == Positions(additions)
        base(p) == IF p \in zero THEN 0 ELSE letter_points(upper(temp[p]))
    IN  SumFn([p \in Range(w) |->
                 IF p \in new THEN base(p) * letter_multiplier[p] ELSE base(p)], Range(w))
        * ProdFn([p \in Range(w) \cap new |-> word_multiplier[p]], Range(w) \cap new)

FormedWords(b, additions) ==
    extract_word_positions(overlay(b, norm_additions(additions)), norm_additions(additions))

WordsByRule(b, additions, zero) ==
    LET words == FormedWords(b, additions)
    IN  SumSeq([w \in DOMAIN words |-> WordScoreByRule(b, additions, zero, words[w])])

Bonus(additions, bingo) == IF bingo \/ Len(additions) = 7 THEN 50 ELSE 0

(* A call that scored a placement: score_calculator itself, or a new_move  *)
(* that went through; Scored is the placement it scored.                   *)
ScoringCall ==
    \/ Returned("score_calculator")
    \/ Returned("new_move") /\ call.err = "ok"

Scored == IF call.op = "new_move" THEN call.out ELSE call.additions

(* C6: every word of a placement scores (sum of base values, each new      *)
(* tile's multiplied by its letter premium) times the product of the word  *)
(* premiums of its new cells; QUITE with Q on the double-letter cell (7,3) *)
(* and E on the double-word centre scores 48, and a word over the two      *)
(* double-word cells (4,4) and (4,10) is quadrupled.                       *)
C6_WordScoreLettersThenWordPremiums ==
    (Returned("score_calculator") /\ call.additions # <<>>) =>
        /\ call.score = WordsByRule(call.before, call.additions,
                                    LowerCaseTiles(call.additions))
                        + Bonus(call.additions, call.bingo)
        /\ (/\ call.additions = lay(<<"Q", "U", "I", "T", "E">>, "H", <<7, 3>>)
            /\ Occupied(call.before) = {}
            /\ ~call.bingo) => call.score = 48
        /\ (/\ call.additions = lay(<<"I", "N", "F", "A", "N", "C", "Y">>, "H", <<4, 4>>)
            /\ Occupied(call.before) = {}) => call.score = 15 * 4 + 50

(* C6 witness: QUITE scored on the empty board.                            *)
C6_Witness ==
    /\ Returned("score_calculator")
    /\ call.additions = lay(<<"Q", "U", "I", "T", "E">>, "H", <<7, 3>>)
    /\ Occupied(call.before) = {}
    /\ call.score = 48

(* C7: the letter and word premiums of cells that were occupied before the *)
(* move do not enter its score: the score is what it would be with both    *)
(* premiums of every such cell equal to 1.                                 *)
WithoutPremiumsOn(grid, cells) == [p \in Cells |-> IF p \in cells THEN 1 ELSE grid[p]]

C7_OldTilesScoreBaseValueOnly ==
    ScoringCall =>
        call.score = score_total(call.before, Scored, call.bingo,
                                 WithoutPremiumsOn(letter_multiplier, Occupied(call.before)),
                                 WithoutPremiumsOn(word_multiplier, Occupied(call.before)))

(* C7 witness: a committed move formed a word through a premium cell that  *)
(* an earlier move had occupied.                                           *)
C7_Witness ==
    /\ Returned("new_move")
    /\ call.err = "ok"
    /\ call.score > 0
    /\ \E w \in Range(FormedWords(call.before, call.out)) :
          \E p \in Range(w) :
              /\ call.before[p] # ""
              /\ word_multiplier[p] > 1 \/ letter_multiplier[p] > 1

(* C8: a new tile given in lower case has base value 0 whatever the letter *)
(* premium of its cell, and the word premium of its cell still multiplies  *)
(* the words through it: the score is that of the same placement with the  *)
(* point-less "-" in place of every lower-case letter, and does not change *)
(* when the letter premiums of the blanks' cells are set to 1.             *)
DashForLowerCase(additions) ==
    [i \in DOMAIN additions |->
        IF Ch(additions[i]) \in LowerSet THEN <<"-", Pos(additions[i])>> ELSE additions[i]]

C8_BlankTileScoresZeroKeepsWordPremium ==
    (/\ Returned("score_calculator")
     /\ Cardinality(Positions(call.additions)) = Len(call.additions)) =>
        /\ call.score = score_calculator(call.before, DashForLowerCase(call.additions),
                                         call.bingo)
        /\ call.score = score_total(call.before, call.additions, call.bingo,
                            WithoutPremiumsOn(letter_multiplier,
                                              LowerCaseTiles(call.additions)),
                            word_multiplier)
        /\ (/\ call.additions = lay(<<"c", "A", "T">>, "H", <<0, 3>>)
            /\ Occupied(call.before) = {}
            /\ ~call.bingo) => call.score = 2
        /\ (/\ call.additions = lay(<<"c", "A", "T">>, "H", <<1, 1>>)
            /\ Occupied(call.before) = {}
            /\ ~call.bingo) => call.score = 4

(* C8 witness: a blank on the double-word cell (1,1) doubled the word.     *)
C8_Witness ==
    /\ Returned("score_calculator")
    /\ call.additions = lay(<<"c", "A", "T">>, "H", <<1, 1>>)
    /\ ~call.bingo
    /\ call.score = 4

(* C9: a tile committed as a resolved blank keeps base value 0 in the      *)
(* words of later moves that run through its cell.                         *)
C9_CommittedBlankKeepsZero ==
    (ScoringCall /\ Scored # <<>>) =>
        call.score = WordsByRule(call.before, Scored, LowerCaseTiles(Scored) \cup blanks)
                     + Bonus(Scored, call.bingo)

(* C10: the score of a placement is the sum of the word scores plus 50 when the *)
(* placement has 7 tiles or the bingo flag is set, plus 0 otherwise.       *)
C10_BonusForSevenTilesOrFlag ==
    Returned("score_calculator") =>
        call.score = words_total(call.before, call.additions,
                                 letter_multiplier, word_multiplier)
                     + (IF Len(call.additions) = 7 \/ call.bingo THEN 50 ELSE 0)

(* C11: for a placement that passes the geometry check, the list of words  *)
(* that score_calculator sums holds every formed word, identified by its   *)
(* list of cells, once: no two entries of the list are the same cells.     *)
C11_EachFormedWordScoredOnce ==
    (/\ ScoringCall
     /\ Scored # <<>>
     /\ verify_word_addition(call.before, Scored) = "ok") =>
        LET words == FormedWords(call.before, Scored)
        IN  /\ \A i, j \in DOMAIN words : i # j => words[i] # words[j]
            /\ call.score = SumFn([w \in Range(words) |->
                                     score_word(overlay(call.before, norm_additions(Scored)),
                                                blank_positions(Scored), Positions(Scored),
                                                letter_multiplier, word_multiplier, w)],
                                  Range(words))
                            + Bonus(Scored, call.bingo)

(* C12: a successful new_move changes exactly the cells of its placement,  *)
(* each from empty to the upper-case form of the placed or resolved        *)
(* letter; every other cell keeps what it held.                            *)
C12_CommitWritesExactlyThePlacement ==
    (Returned("new_move") /\ call.err = "ok") =>
        /\ \A i \in DOMAIN call.out :
              /\ call.before[Pos(call.out[i])] = ""
              /\ board[Pos(call.out[i])] = upper(Ch(call.out[i]))
        /\ \A p \in Cells \ Positions(call.out) : board[p] = call.before[p]

-----------------------------------------------------------------------------
(* The pattern matcher by its contract, with bags of letters.              *)

Letters(s) == {s[i] : i \in {j \in DOMAIN s : isalpha(s[j])}}

Shortfall(need, have) == IF need > have THEN need - have ELSE 0

(* The rack that remains when the pattern's fixed letters are taken from   *)
(* it: RemainingLetters of each letter, RemainingBlanks blanks.            *)
FixedPart(pattern) == SelectSeq(upper_str(pattern), isalpha)

RemainingLetters(pattern, rack, ch) ==
    Shortfall(Count(upper_str(rack), ch), Count(FixedPart(pattern), ch))

RemainingBlanks(pattern, rack) ==
    Count(rack, "-")
    - SumFn([ch \in Letters(FixedPart(pattern)) |->
               Shortfall(Count(FixedPart(pattern), ch), Count(upper_str(rack), ch))],
            Letters(FixedPart(pattern)))

Qualifies(word, pattern, rack) ==
    LET w == upper_str(word)
        free == SelectSeq([i \in DOMAIN w |-> IF pattern[i] = "_" THEN w[i] ELSE ""],
                          LAMBDA ch : ch # "")
    IN  /\ Len(w) = Len(pattern)
        /\ \A i \in DOMAIN pattern : pattern[i] # "_" => w[i] = upper(pattern[i])
        /\ SumFn([ch \in Range(free) |->
                    Shortfall(Count(free, ch), RemainingLetters(pattern, rack, ch))],
                 Range(free))
           <= RemainingBlanks(pattern, rack)

(* C13: for a non-empty fixed pattern and a rack that pass the feasibility *)
(* check, generate returns exactly the words of the word list (in upper    *)
(* case) of the pattern's length, with the pattern's letters at its fixed  *)
(* positions, whose other letters the rack that remains after the fixed    *)
(* letters can supply together, a blank for each missing letter.           *)
C13_GenerateReturnsExactlyTheQualifyingWords ==
    (Returned("spg_generate") /\ call.err = "ok") =>
        Range(call.result) =
            {upper_str(call.word_list[i]) :
                i \in {j \in DOMAIN call.word_list :
                          Qualifies(call.word_list[j], call.pattern, call.deck)}}

(* C13 witness: a word was returned whose free letters needed a blank, and *)
(* a word of the right length and fixed letters was left out.              *)
C13_Witness ==
    /\ Returned("spg_generate")
    /\ call.err = "ok"
    /\ \E i \in DOMAIN call.result :
          \E k \in DOMAIN call.pattern :
              /\ call.pattern[k] = "_"
              /\ Count(upper_str(call.deck), call.result[i][k]) = 0
    /\ \E j \in DOMAIN call.word_list :
          /\ Len(call.word_list[j]) = Len(call.pattern)
          /\ \A k \in DOMAIN call.pattern :
                call.pattern[k] # "_" => upper(call.word_list[j][k]) = upper(call.pattern[k])
          /\ upper_str(call.word_list[j]) \notin Range(call.result)

-----------------------------------------------------------------------------
(* The pattern expander by its contract.                                   *)

(* The ranges of a pattern that passes the syntax check, and the fixed     *)
(* pattern for a choice of one run length per range.                       *)
RangeTokens(pattern) == {i \in DOMAIN tokenize(pattern, 1) : tokenize(pattern, 1)[i].range}

Choices(pattern) ==
    LET tokens == tokenize(pattern, 1)
    IN  {k \in [RangeTokens(pattern) ->
                   0 .. SetMax({tokens[i].m : i \in RangeTokens(pattern)} \cup {0})] :
            \A i \in RangeTokens(pattern) : tokens[i].n <= k[i] /\ k[i] <= tokens[i].m}

Chosen(pattern, k) ==
    LET tokens == tokenize(pattern, 1)
    IN  Joined([i \in DOMAIN tokens |->
                  IF tokens[i].range THEN underscores(k[i]) ELSE <<tokens[i].ch>>])

(* C14: for a non-empty pattern that passes the expander's check (ranges   *)
(* with lower bound 0 included), generate returns the union of the         *)
(* matcher's results over the fixed patterns of every choice of run        *)
(* lengths.                                                                *)
C14_ExpanderReturnsUnionOverRunLengths ==
    (/\ Returned("dpg_generate")
     /\ call.pattern # <<>>
     /\ dpg_verify_pattern(call.pattern, call.deck) = "ok") =>
        /\ call.err = "ok"
        /\ call.result =
              UNION {Range(spg_generate(Chosen(call.pattern, k), call.deck,
                                        call.word_list).words) :
                        k \in Choices(call.pattern)}

(* A call of a strategy that searched placements: Longest-Word on a board  *)
(* with tiles, Prize-Seeking or Crossword-Forming.                         *)
StrategyCall ==
    /\ pc = "returned"
    /\ call.op \in {"recommend_longest", "recommend_prize", "recommend_crossword"}
    /\ call.op = "recommend_longest" => Occupied(call.before) # {}

BestCandidates == {c \in call.candidates : \A d \in call.candidates : d.score <= c.score}

(* C15: whenever a strategy has at least one validated candidate,          *)
(* recommend_next_move returns normally and its result holds exactly the   *)
(* validated candidates of maximal score, ties kept, no placement twice.   *)
C15_ResultIsTheBestCandidatesOnce ==
    (StrategyCall /\ call.candidates # {}) =>
        /\ call.err = "ok"
        /\ {call.value[i].adds : i \in DOMAIN call.value} = {c.adds : c \in BestCandidates}
        /\ \A i, j \in DOMAIN call.value :
              i # j => call.value[i].adds # call.value[j].adds

PremiumCell(p) == word_multiplier[p] > 1 \/ letter_multiplier[p] > 1

AnchorsByRule(b) ==
    IF Occupied(b) = {} THEN {<<7, 7>>}
    ELSE {p \in Cells : b[p] = "" /\ \E q \in Occupied(b) : NextTo(p, q)}

(* C16: every candidate Prize-Seeking scores puts a new tile on a cell     *)
(* whose word or letter multiplier exceeds 1; its anchors are the centre   *)
(* cell alone on an empty board and otherwise exactly the empty cells      *)
(* orthogonally adjacent to an occupied cell.                              *)
C16_PrizeCandidatesCoverAPremiumCell ==
    Returned("recommend_prize") =>
        /\ Range(prize_anchors(call.before)) = AnchorsByRule(call.before)
        /\ \A c \in call.candidates :
              /\ \E i \in DOMAIN c.adds : PremiumCell(Pos(c.adds[i]))
              /\ c.anchor \in AnchorsByRule(call.before)

C16_Witness ==
    /\ Returned("recommend_prize")
    /\ Occupied(call.before) # {}
    /\ call.candidates # {}
    /\ \E c \in call.candidates : \E i \in DOMAIN c.adds : ~PremiumCell(Pos(c.adds[i]))

Above(p) == <<p[1] - 1, p[2]>>

Below(p) == <<p[1] + 1, p[2]>>

LeftOf(p) == <<p[1], p[2] - 1>>

RightOf(p) == <<p[1], p[2] + 1>>

(* The cell has an occupied neighbour across the axis a word is laid on.   *)
CrossNeighbour(b, axis, p) ==
    \E q \in (IF axis = "H" THEN {Above(p), Below(p)} ELSE {LeftOf(p), RightOf(p)}) :
        q \in Occupied(b)

(* C17: Crossword-Forming returns the empty list on an empty board; on a   *)
(* non-empty board a candidate searched on axis H has an anchor with an    *)
(* occupied cell directly above or below, one searched on axis V an anchor *)
(* with an occupied cell directly left or right, and the candidate has a   *)
(* new tile with an occupied neighbour across its axis, so that it forms a *)
(* perpendicular word of at least two letters.                             *)
C17_CrosswordCandidatesFormACrossWord ==
    Returned("recommend_crossword") =>
        /\ Occupied(call.before) = {} =>
              call.err = "ok" /\ call.value = <<>> /\ call.candidates = {}
        /\ \A c \in call.candidates :
              /\ c.axis \in {"H", "V"}
              /\ CrossNeighbour(call.before, c.axis, c.anchor)
              /\ \E i \in DOMAIN c.adds : CrossNeighbour(call.before, c.axis, Pos(c.adds[i]))
              /\ \A i, j \in DOMAIN c.adds :
                    IF c.axis = "H" THEN Pos(c.adds[i])[1] = Pos(c.adds[j])[1]
                    ELSE Pos(c.adds[i])[2] = Pos(c.adds[j])[2]

C17_Witness ==
    /\ Returned("recommend_crossword")
    /\ \E c \in call.candidates : c.axis = "H"
    /\ \E c \in call.candidates : c.axis = "V"

(* The placements of a word of a candidate's pattern at the candidate's    *)
(* anchor that pass validation on the board the call read.                 *)
ValidPlacementsOf(c, w) ==
    {m \in Range(materialize_additions_from_words(call.before, c.axis, c.anchor, <<w>>,
                                                  c.pat.meta, upper_str(call.deck))) :
        placement_valid(call.before, m)}

(* C18: on a non-empty board Longest-Word retains at most one placement    *)
(* for each (anchor, axis, pattern), and that placement is a valid         *)
(* placement of the longest word the pattern matched that has one: no      *)
(* longer word matched by the same pattern has a placement that passes     *)
(* validation.                                                             *)
C18_LongestWordKeepsTheLongestValidWord ==
    (Returned("recommend_longest") /\ Occupied(call.before) # {}) =>
        /\ \A c, d \in call.candidates : c.job = d.job => c = d
        /\ \A c \in call.candidates :
              /\ c.adds \in ValidPlacementsOf(c, c.word)
              /\ \A w \in words_of_pattern(c.pat, upper_str(call.deck)) :
                    Len(w) > Len(c.word) => ValidPlacementsOf(c, w) = {}

StrategyKeys(b) ==
    IF Occupied(b) = {} THEN {"PrizeCells"} ELSE {"LongestWord", "PrizeCells", "Crossword"}

(* C19: the aggregator returns a mapping whose keys are PrizeCells alone   *)
(* on an empty board and LongestWord, PrizeCells and Crossword on a        *)
(* non-empty board, and every element of the list under every key is a     *)
(* (placement, score) pair.                                                *)
C19_AggregateMapsEachStrategyToScoredPlacements ==
    Returned("recommend_aggregate") =>
        /\ call.err = "ok"
        /\ DOMAIN call.value = StrategyKeys(call.before)
        /\ \A key \in DOMAIN call.value :
              \A i \in DOMAIN call.value[key] : call.value[key][i].shape = "pair"

ReadOnlyCalls ==
    {"score_calculator", "check_word_valid", "get_all_affected_words",
     "recommend_longest", "recommend_prize", "recommend_crossword", "recommend_aggregate"}

RECURSIVE Group(_, _)
(* The cells of S joined to a cell of seen by orthogonal steps inside S.   *)
Group(S, seen) ==
    LET more == {p \in S \ seen : \E q \in seen : NextTo(p, q)}
    IN  IF more = {} THEN seen ELSE Group(S, seen \cup more)

(* C26: after any sequence of moves from the empty board, the occupied     *)
(* cells form one orthogonally connected group that holds the centre cell. *)
C26_TilesFormOneGroupThroughTheCentre ==
    Occupied(board) # {} => Group(Occupied(board), {start_pos} \cap Occupied(board)) = Occupied(board)

(* C27: after any sequence of moves from the empty board, every maximal    *)
(* horizontal or vertical run of two or more occupied cells spells a word  *)
(* of the lexicon, letter case aside.                                      *)
C27_EveryRunOnTheBoardIsAWord ==
    \A p \in Occupied(board) : \A d \in {<<0, 1>>, <<1, 0>>} :
        Len(RunWord(board, p, d)) >= 2 => lower_word(RunWord(board, p, d)) \in scrabble_dictionary

(* The placements a returned strategy call recommends.                     *)
Recommended ==
    {call.value[i].adds : i \in {i \in DOMAIN call.value :
                                    call.value[i].shape \in {"additions", "pair"}}}

(* C28: every placement a strategy returns for a board and rack is         *)
(* accepted by new_move on that board: geometry, board rule and dictionary *)
(* pass, also when the new tiles lie on both sides of tiles on the board.  *)
C28_RecommendedPlacementsAreAcceptedByNewMove ==
    (pc = "returned" /\ call.op \in {"recommend_longest", "recommend_prize",
                                      "recommend_crossword"}) =>
        \A adds \in Recommended : \A r \in new_move(call.before, adds) : r.err = "ok"

HasResolvedBlank(adds) == \E i \in DOMAIN adds : islower(Ch(adds[i]))

(* C29: for a placement with a resolved blank (a lower-case letter) that a *)
(* strategy produced and scored with score_calculator, new_move on the     *)
(* same board returns that score: the blank counts with base value 0.      *)
C29_NewMoveScoresAResolvedBlankAsZero ==
    (pc = "returned" /\ call.op \in {"recommend_longest", "recommend_prize",
                                      "recommend_crossword"}) =>
        \A c \in call.candidates :
            HasResolvedBlank(c.adds) =>
                \A r \in new_move(call.before, c.adds) :
                    r.err = "ok" => r.score = score_calculator(call.before, c.adds, FALSE)

-----------------------------------------------------------------------------
(* The line of an anchor: Beyond(a, x, dir, d) is the cell d steps from    *)
(* the anchor a on axis x, towards the start of the line for "left".       *)

Beyond(a, x, dir, d) ==
    LET k == IF dir = "left" THEN -d ELSE d
    IN  IF x = "H" THEN <<a[1], a[2] + k>> ELSE <<a[1] + k, a[2]>>

(* The number of cells between the anchor and the edge.                    *)
Reach(a, x, dir) == Cardinality({d \in 1 .. BoardSize : Beyond(a, x, dir, d) \in Cells})

Full(b, a, x, dir, d) == d \in 1 .. Reach(a, x, dir) /\ b[Beyond(a, x, dir, d)] # ""

(* The empty cells directly after distance d, up to a tile or the edge.    *)
EmptyRunAfter(b, a, x, dir, d) ==
    Cardinality({e \in (d + 1) .. Reach(a, x, dir) :
                    \A f \in (d + 1) .. e : ~Full(b, a, x, dir, f)})

(* Where the blocks of the side begin and where the one begun at d ends.   *)
BlockStarts(b, a, x, dir) ==
    {d \in 1 .. Reach(a, x, dir) : Full(b, a, x, dir, d) /\ ~Full(b, a, x, dir, d - 1)}

BlockEnd(b, a, x, dir, d) ==
    SetMax({e \in d .. Reach(a, x, dir) : \A f \in d .. e : Full(b, a, x, dir, f)})

(* The anchor and the empty cells crossed to come to distance d.           *)
CostTo(b, a, x, dir, d) == 1 + Cardinality({e \in 1 .. (d - 1) : ~Full(b, a, x, dir, e)})

ReachableStarts(b, a, x, dir, n) ==
    {d \in BlockStarts(b, a, x, dir) : CostTo(b, a, x, dir, d) <= n}

(* The t-th smallest member of a set of numbers.                           *)
Nth(S, t) == CHOOSE d \in S : Cardinality({e \in S : e <= d}) = t

(* The letters of the block begun at d, as read on the board.              *)
BlockRead(b, a, x, dir, d) ==
    LET e == BlockEnd(b, a, x, dir, d)
    IN  [i \in 1 .. (e - d + 1) |->
            b[Beyond(a, x, dir, IF dir = "left" THEN e - i + 1 ELSE d + i - 1)]]

(* Where the last reachable block ends, 0 when there is none.              *)
LastReached(b, a, x, dir, n) ==
    IF ReachableStarts(b, a, x, dir, n) = {} THEN 0
    ELSE BlockEnd(b, a, x, dir, SetMax(ReachableStarts(b, a, x, dir, n)))

ScanByRule(b, a, x, dir, n) ==
    LET starts == ReachableStarts(b, a, x, dir, n)
        last == LastReached(b, a, x, dir, n)
    IN  [blocks |-> [t \in 1 .. Cardinality(starts) |->
                        BlockRead(b, a, x, dir, Nth(starts, t))],
         gaps |-> [t \in 1 .. Cardinality(starts) |->
                      EmptyRunAfter(b, a, x, dir,
                                    IF t = 1 THEN 0
                                    ELSE BlockEnd(b, a, x, dir, Nth(starts, t - 1)))],
         tail_max |-> Min(EmptyRunAfter(b, a, x, dir, last),
                          n - CostTo(b, a, x, dir, last + 1))]

(* C21: scanning a side with rack size n >= 1 records, nearest first, the  *)
(* blocks whose cost (1 plus the gaps crossed) is at most n, each with the *)
(* gap before it, and stops at the first block that costs more; the tail   *)
(* is min(g, n - c) for the last empty run g scanned and the cost c before *)
(* it, which is min(empty run from the anchor, n - 1) when no block is     *)
(* reachable, and is never negative.                                       *)
C21_ScanRecordsReachableBlocksAndBoundedTail ==
    (Returned("scan_side_for_blocks") /\ call.rack_len >= 1) =>
        /\ call.scan = ScanByRule(call.before, call.anchor, call.axis, call.direction,
                                  call.rack_len)
        /\ call.scan.tail_max >= 0
        /\ call.scan.blocks = <<>> =>
              call.scan.tail_max =
                  Min(EmptyRunAfter(call.before, call.anchor, call.axis, call.direction, 0),
                      call.rack_len - 1)

C21_Witness ==
    /\ Returned("scan_side_for_blocks")
    /\ call.rack_len >= 1
    /\ Len(call.scan.blocks) = 1
    /\ BlockStarts(call.before, call.anchor, call.axis, call.direction)
          # ReachableStarts(call.before, call.anchor, call.axis, call.direction,
                            call.rack_len)
    /\ call.scan.tail_max > 0
    /\ call.scan.tail_max < EmptyRunAfter(call.before, call.anchor, call.axis,
                                          call.direction,
                                          LastReached(call.before, call.anchor, call.axis,
                                                      call.direction, call.rack_len))

(* The reachable blocks of the two sides of the anchor of a call.          *)
LeftSide == ScanByRule(call.before, call.anchor, call.axis, "left", call.rack_len)

RightSide == ScanByRule(call.before, call.anchor, call.axis, "right", call.rack_len)

(* The cost of the i nearest left blocks with the j nearest right blocks.  *)
PairCost(i, j) == 1 + SumSeq(Take(LeftSide.gaps, i)) + SumSeq(Take(RightSide.gaps, j))

ViablePairs ==
    {pair \in (0 .. Len(LeftSide.blocks)) \X (0 .. Len(RightSide.blocks)) :
        PairCost(pair[1], pair[2]) <= call.rack_len}

(* The least number of wildcard cells of a pattern and its fixed letters,  *)
(* as the pattern expander reads it.                                       *)
MinWildcards(pattern) ==
    SumSeq([i \in DOMAIN tokenize(pattern, 1) |->
               IF tokenize(pattern, 1)[i].range THEN tokenize(pattern, 1)[i].n
               ELSE IF tokenize(pattern, 1)[i].ch = "_" THEN 1 ELSE 0])

FixedLetters(pattern) ==
    Joined([i \in DOMAIN tokenize(pattern, 1) |->
              IF tokenize(pattern, 1)[i].range \/ tokenize(pattern, 1)[i].ch = "_"
              THEN <<>> ELSE <<tokenize(pattern, 1)[i].ch>>])

FitsBoard(b, x, a, w, idx) ==
    \A i \in DOMAIN w :
        /\ word_cell(x, a, idx, i) \in Cells
        /\ b[word_cell(x, a, idx, i)] # "" => upper(b[word_cell(x, a, idx, i)]) = w[i]

(* The letters of the laid word that fall on empty cells.                  *)
TilesOf(b, x, a, w, idx) ==
    {<<w[i], word_cell(x, a, idx, i)>> :
        i \in {i \in DOMAIN w : b[word_cell(x, a, idx, i)] = ""}}

OnAxis(x, a, pos) == IF x = "H" THEN pos[1] = a[1] ELSE pos[2] = a[2]

UpperTiles(P) == {<<upper(Ch(P[t])), Pos(P[t])>> : t \in DOMAIN P}

(* Placement P is what word gives when laid at its anchor index.           *)
PlacementOfWord(P, word, idx) ==
    /\ idx # -1
    /\ FitsBoard(call.before, call.axis, call.anchor, word, idx)
    /\ UpperTiles(P) = TilesOf(call.before, call.axis, call.anchor, word, idx)
    /\ Len(P) = Cardinality(UpperTiles(P))

WordAlone(n) ==
    materialize_additions_from_words(call.before, call.axis, call.anchor,
                                     <<call.word_list[n]>>, call.meta, call.rack)

(* C23: every placement _materialize_additions_from_words returns lies on  *)
(* the axis through the anchor, has only empty cells of the board, and is  *)
(* the letters on empty cells of a matched word that, laid from the anchor *)
(* coordinate minus its anchor index, agrees with every occupied cell it   *)
(* covers; a word that leaves the board or disagrees with an occupied cell *)
(* gives no placement.                                                      *)
C23_PlacementsLieOnTheAxisAndAgreeWithTheBoard ==
    Returned("materialize_additions_from_words") =>
        /\ \A k \in DOMAIN call.placements :
             /\ call.placements[k] # <<>>
             /\ \A t \in DOMAIN call.placements[k] :
                   /\ Pos(call.placements[k][t]) \in Cells
                   /\ call.before[Pos(call.placements[k][t])] = ""
                   /\ OnAxis(call.axis, call.anchor, Pos(call.placements[k][t]))
             /\ \E n \in DOMAIN call.word_list :
                   PlacementOfWord(call.placements[k], upper_str(call.word_list[n]),
                                   calculate_anchor_index_in_word(
                                       upper_str(call.word_list[n]), call.meta))
        /\ \A n \in DOMAIN call.word_list :
             \A idx \in {calculate_anchor_index_in_word(upper_str(call.word_list[n]),
                                                        call.meta)} :
                (idx # -1 /\ ~FitsBoard(call.before, call.axis, call.anchor,
                                        upper_str(call.word_list[n]), idx))
                    => WordAlone(n) = <<>>

(* A call that returned a placement of a word covering an occupied cell    *)
(* and was given a word that does not fit the board.                       *)
C23_Witness ==
    /\ Returned("materialize_additions_from_words")
    /\ \E k \in DOMAIN call.placements, n \in DOMAIN call.word_list :
          /\ PlacementOfWord(call.placements[k], upper_str(call.word_list[n]),
                             calculate_anchor_index_in_word(
                                 upper_str(call.word_list[n]), call.meta))
          /\ Len(call.placements[k]) < Len(call.word_list[n])
    /\ \E n \in DOMAIN call.word_list :
          \E idx \in {calculate_anchor_index_in_word(upper_str(call.word_list[n]),
                                                     call.meta)} :
             idx # -1 /\ ~FitsBoard(call.before, call.axis, call.anchor,
                                    upper_str(call.word_list[n]), idx)

(* The tiles before tile t of P that are rack letters ch.                  *)
EarlierLetters(P, t, ch) == {s \in 1 .. (t - 1) : Ch(P[s]) = ch}

LowerTiles(P) == {t \in DOMAIN P : islower(Ch(P[t]))}

(* The rack cannot pay the letters the laid word puts on empty cells: no   *)
(* choice of tiles for its blanks leaves letters the rack has.             *)
Unpayable(b, x, a, w, idx, rack) ==
    \A blanked \in SUBSET TilesOf(b, x, a, w, idx) :
        \/ Cardinality(blanked) > Count(rack, "-")
        \/ \E ch \in {w[i] : i \in DOMAIN w} :
              Cardinality({t \in TilesOf(b, x, a, w, idx) \ blanked : Ch(t) = ch})
                  > Count(rack, ch)

(* C24: every placement _materialize_additions_from_words returns can be   *)
(* paid from the rack: its upper-case tiles are a sub-multiset of the      *)
(* rack's letters, it has at most as many lower-case tiles as the rack has *)
(* '-', so at most as many tiles as the rack; a tile is lower case only    *)
(* when earlier tiles of the word used every rack copy of its letter; a    *)
(* word the rack cannot pay gives no placement.                            *)
C24_PlacementsArePaidFromTheRack ==
    Returned("materialize_additions_from_words") =>
        /\ \A k \in DOMAIN call.placements :
             /\ \A ch \in {Ch(call.placements[k][t]) : t \in DOMAIN call.placements[k]} :
                   ~islower(ch) =>
                       Cardinality({t \in DOMAIN call.placements[k] :
                                       Ch(call.placements[k][t]) = ch})
                           <= Count(call.rack, ch)
             /\ Cardinality(LowerTiles(call.placements[k])) <= Count(call.rack, "-")
             /\ Len(call.placements[k]) <= Len(call.rack)
             /\ \A t \in LowerTiles(call.placements[k]) :
                   Cardinality(EarlierLetters(call.placements[k], t,
                                              upper(Ch(call.placements[k][t]))))
                       = Count(call.rack, upper(Ch(call.placements[k][t])))
        /\ \A n \in DOMAIN call.word_list :
             \A idx \in {calculate_anchor_index_in_word(upper_str(call.word_list[n]),
                                                        call.meta)} :
                (/\ idx # -1
                 /\ FitsBoard(call.before, call.axis, call.anchor,
                              upper_str(call.word_list[n]), idx)
                 /\ Unpayable(call.before, call.axis, call.anchor,
                              upper_str(call.word_list[n]), idx, call.rack))
                    => WordAlone(n) = <<>>

(* A call that returned a placement with a blank written in lower case and *)
(* was given a word that fits the board but not the rack.                  *)
C24_Witness ==
    /\ Returned("materialize_additions_from_words")
    /\ \E k \in DOMAIN call.placements : LowerTiles(call.placements[k]) # {}
    /\ \E n \in DOMAIN call.word_list :
          \E idx \in {calculate_anchor_index_in_word(upper_str(call.word_list[n]),
                                                     call.meta)} :
             /\ idx # -1
             /\ FitsBoard(call.before, call.axis, call.anchor,
                          upper_str(call.word_list[n]), idx)
             /\ Unpayable(call.before, call.axis, call.anchor,
                          upper_str(call.word_list[n]), idx, call.rack)

(* The anchor indices the metadata's left and right length bounds allow    *)
(* for a word of word_len letters.                                         *)
FeasibleOffsets(word_len, meta) ==
    {idx \in (block_lengths(meta.left_blocks) + SumSeq(meta.left_gaps)) ..
             (block_lengths(meta.left_blocks) + SumSeq(meta.left_gaps) + meta.left_tail) :
        /\ block_lengths(meta.right_blocks) + SumSeq(meta.right_gaps) <= word_len - idx - 1
        /\ word_len - idx - 1 <= block_lengths(meta.right_blocks) + SumSeq(meta.right_gaps)
                                     + meta.right_tail}

(* The allowed indices at which the word agrees with the board.            *)
ConsistentOffsets(w) ==
    {idx \in FeasibleOffsets(Len(w), call.meta) :
        FitsBoard(call.before, call.axis, call.anchor, w, idx)}

(* The word, when some allowed index is consistent with the board, gives   *)
(* the placement of the first such index (if that needs a tile the rack    *)
(* can pay).                                                               *)
LaidAtFirstConsistent(w, placed) ==
    \A first \in {idx \in ConsistentOffsets(w) :
                     \A x \in ConsistentOffsets(w) : idx <= x} :
        (/\ TilesOf(call.before, call.axis, call.anchor, w, first) # {}
         /\ ~Unpayable(call.before, call.axis, call.anchor, w, first, call.rack))
            => /\ placed # <<>>
               /\ UpperTiles(placed[1])
                      = TilesOf(call.before, call.axis, call.anchor, w, first)

(* C25: when several anchor indices satisfy the metadata's length bounds,  *)
(* _materialize_additions_from_words uses the first at which the word can  *)
(* be laid consistently with the board, so a word gives a placement        *)
(* whenever one of the allowed indices is consistent with the board.       *)
C25_AWordIsLaidAtItsFirstConsistentOffset ==
    Returned("materialize_additions_from_words") =>
        \A n \in DOMAIN call.word_list :
            LaidAtFirstConsistent(upper_str(call.word_list[n]), WordAlone(n))

(* The distance from the anchor at which the last of the blocks ends.      *)
SideEnd(blocks, gaps) == block_lengths(blocks) + SumSeq(gaps)

(* The blocks and gaps of a pattern's side are the nearest ones of the     *)
(* line, and its tail ends before the next tile or the edge.               *)
SideIsOnBoard(dir, blocks, gaps, tail) ==
    /\ blocks = Take(ScanByRule(call.before, call.anchor, call.axis, dir,
                                2 * BoardSize).blocks, Len(blocks))
    /\ gaps = Take(ScanByRule(call.before, call.anchor, call.axis, dir,
                              2 * BoardSize).gaps, Len(gaps))
    /\ tail <= EmptyRunAfter(call.before, call.anchor, call.axis, dir,
                             SideEnd(blocks, gaps))

(* C30: in every pattern _build_all_dynamic_patterns returns, the gap      *)
(* cells, the anchor and the cells of a tail at any allowed length are     *)
(* empty cells and the fixed letters are the letters on the board: the     *)
(* tail of a side is at most the number of empty cells directly beyond the *)
(* last block included on that side (beyond the anchor when none is).      *)
C30_PatternCellsMatchTheBoard ==
    Returned("build_all_dynamic_patterns") =>
        \A k \in DOMAIN call.patterns :
            /\ call.before[call.anchor] = ""
            /\ SideIsOnBoard("left", call.patterns[k].meta.left_blocks,
                             call.patterns[k].meta.left_gaps,
                             call.patterns[k].meta.left_tail)
            /\ SideIsOnBoard("right", call.patterns[k].meta.right_blocks,
                             call.patterns[k].meta.right_gaps,
                             call.patterns[k].meta.right_tail)

=============================================================================
